---- MODULE Spec2Model ----
(***************************************************************************)
(* Model of the plan generator (planning/rules.py), the plan validator     *)
(* (planning/validator.py) and the execution engine (executor.py) of the   *)
(* drive reorganization tool.                                              *)
(*                                                                         *)
(* Paths and names are TLA+ strings; TLC evaluates Len, SubSeq and \o on   *)
(* strings, so the Python string operations are modelled character by      *)
(* character.                                                              *)
(***************************************************************************)
EXTENDS Integers, Sequences, FiniteSets, TLC

(***************************************************************************)
(* State                                                                   *)
(***************************************************************************)

\* generate_moves_from_rules
VARIABLES
  files,              \* the record stream handed to the generator
  rules,              \* the rule list handed to the generator
  gpc,                \* "iter": the generator is being consumed; "done": exhausted
  gi,                 \* index of the next record the for loop takes
  seen_destinations,  \* set of destinations already assigned
  next_counters,      \* dict: base destination -> next counter to try
  moves,              \* the moves yielded so far, in order
  gen_log,            \* per record consumed: what the loop body did with it
  run,                \* 1: first call of the generator, 2: a second, independent call
  first_moves,        \* the moves the first call yielded
  coverage            \* None, or Some(what validate_rule_coverage returned last)

vars_gen == <<files, rules, gpc, gi, seen_destinations, next_counters, moves,
              gen_log, run, first_moves, coverage>>

\* the tree under root
VARIABLES
  root_exists,        \* whether root.exists()
  fs_files,           \* relative path -> identity of the file stored there
  fs_dirs             \* relative paths of the directories; "" is root

vars_fs == <<root_exists, fs_files, fs_dirs>>

\* validate_plan
VARIABLES
  vplan,              \* plan["moves"]: each item has old_rel and new_rel, None when absent
  vpc,                \* "start", "loop", then "returned", "raised" or "fatal"
  vi,                 \* index of the next move of the for loop
  destinations,       \* dict new_rel -> old_rel of the accepted moves
  seen_moves,         \* set of (old_rel, new_rel) seen so far
  warnings,           \* the warnings recorded, in order
  collisions,         \* the collisions recorded, in order
  valid_moves,        \* the moves accepted so far
  vresult             \* None until validate_plan returns, then Some(list returned)

vars_val == <<vplan, vpc, vi, destinations, seen_moves, warnings, collisions,
              valid_moves, vresult>>

\* apply_plan
VARIABLES
  plan_arg,           \* the plan argument: a dict, or the lines of the file at a path
  dry_run,            \* the dry_run argument
  allow_cross_device, \* the allow_cross_device argument
  epc,                \* where the calling thread is in apply_plan
  folders_to_create,  \* folders_to_create read from the plan
  moves_source,       \* the moves of the plan not yet consumed
  created_folders,    \* folders the run created (or would create)
  executed_moves_count,
  failed_moves_count,
  cleaned_folders_count,
  undo_file,          \* None: no journal file; else Some(lines written to it)
  undo_open,          \* whether undo_file_handle is open
  tasks,              \* the futures of the current batch, one per move
  report,             \* None, or Some(report returned)
  call,               \* 1: apply_plan on a plan, 2: apply_plan on the journal of call 1
  before              \* files under root and journal as they were before the latest call

vars_exec == <<plan_arg, dry_run, allow_cross_device, epc, folders_to_create, moves_source,
               created_folders, executed_moves_count, failed_moves_count,
               cleaned_folders_count, undo_file, undo_open, tasks, report, call, before>>

vars == <<vars_gen, vars_fs, vars_val, vars_exec>>

(***************************************************************************)
(* Python string operations                                                *)
(***************************************************************************)

\* s[i] (1-based)
Ch(s, i) == SubSeq(s, i, i)

\* s.startswith(p)
StartsWith(s, p) == Len(p) <= Len(s) /\ SubSeq(s, 1, Len(p)) = p

\* s.endswith(p)
EndsWith(s, p) == Len(p) <= Len(s) /\ SubSeq(s, Len(s) - Len(p) + 1, Len(s)) = p

\* s.find(sub, from): the first index >= from at which sub occurs, 0 if none
RECURSIVE Find(_, _, _)
Find(s, sub, from) ==
  IF from + Len(sub) - 1 > Len(s) THEN 0
  ELSE IF SubSeq(s, from, from + Len(sub) - 1) = sub THEN from
  ELSE Find(s, sub, from + 1)

\* sub in s
Contains(s, sub) == Find(s, sub, 1) # 0

\* s.rfind(c) for a single character c: the last index, 0 if none
RECURSIVE RFindFrom(_, _, _)
RFindFrom(s, c, i) ==
  IF i = 0 THEN 0
  ELSE IF Ch(s, i) = c THEN i
  ELSE RFindFrom(s, c, i - 1)

RFind(s, c) == RFindFrom(s, c, Len(s))

\* s.replace(old, new) for a non-empty old: left to right, non-overlapping
RECURSIVE Replace(_, _, _)
Replace(s, old, new) ==
  LET i == Find(s, old, 1)
  IN IF i = 0 THEN s
     ELSE SubSeq(s, 1, i - 1) \o new
          \o Replace(SubSeq(s, i + Len(old), Len(s)), old, new)

\* s.split("/")
RECURSIVE Split(_)
Split(s) ==
  LET i == Find(s, "/", 1)
  IN IF i = 0 THEN <<s>>
     ELSE <<SubSeq(s, 1, i - 1)>> \o Split(SubSeq(s, i + 1, Len(s)))

\* "/".join(parts)
RECURSIVE Join(_)
Join(parts) ==
  IF Len(parts) = 0 THEN ""
  ELSE IF Len(parts) = 1 THEN parts[1]
  ELSE parts[1] \o "/" \o Join(Tail(parts))

\* s.rstrip("/")
RECURSIVE RStrip(_)
RStrip(s) == IF Len(s) > 0 /\ Ch(s, Len(s)) = "/" THEN RStrip(SubSeq(s, 1, Len(s) - 1)) ELSE s

\* s.lstrip(c) for a single character c
RECURSIVE LStripCh(_, _)
LStripCh(s, c) == IF Len(s) > 0 /\ Ch(s, 1) = c THEN LStripCh(SubSeq(s, 2, Len(s)), c) ELSE s

\* s.strip("/")
Strip(s) == LStripCh(RStrip(s), "/")

UpperChars == "ABCDEFGHIJKLMNOPQRSTUVWXYZ"
LowerChars == "abcdefghijklmnopqrstuvwxyz"

\* s.lower()
RECURSIVE Lower(_)
Lower(s) ==
  IF Len(s) = 0 THEN ""
  ELSE LET i == Find(UpperChars, Ch(s, 1), 1)
       IN (IF i = 0 THEN Ch(s, 1) ELSE Ch(LowerChars, i)) \o Lower(SubSeq(s, 2, Len(s)))

\* s.upper()
RECURSIVE Upper(_)
Upper(s) ==
  IF Len(s) = 0 THEN ""
  ELSE LET i == Find(LowerChars, Ch(s, 1), 1)
       IN (IF i = 0 THEN Ch(s, 1) ELSE Ch(UpperChars, i)) \o Upper(SubSeq(s, 2, Len(s)))

DigitChars == "0123456789"

\* str(n) for n >= 0
RECURSIVE IntToStr(_)
IntToStr(n) ==
  IF n < 10 THEN Ch(DigitChars, n + 1)
  ELSE IntToStr(n \div 10) \o Ch(DigitChars, (n % 10) + 1)

\* the value of a string of decimal digits, -1 if it is empty or has another character
RECURSIVE DigitsVal(_, _)
DigitsVal(s, acc) ==
  IF Len(s) = 0 THEN acc
  ELSE LET d == Find(DigitChars, Ch(s, 1), 1)
       IN IF d = 0 THEN -1 ELSE DigitsVal(SubSeq(s, 2, Len(s)), acc * 10 + (d - 1))

StrToInt(s) == IF Len(s) = 0 THEN -1 ELSE DigitsVal(s, 0)

\* the backslash-to-slash normalisation  s.replace("\\", "/")
NormSlashes(s) == Replace(s, "\\", "/")

\* Optional values: None, or a value
None == [isNone |-> TRUE]
Some(v) == [isNone |-> FALSE, v |-> v]

(***************************************************************************)
(* datetime.fromisoformat and pathlib.PurePosixPath, as far as the planner *)
(* uses them                                                               *)
(***************************************************************************)

DaysInMonth == <<31, 29, 31, 30, 31, 30, 31, 31, 30, 31, 30, 31>>

MonthNames == <<"January", "February", "March", "April", "May", "June", "July",
                "August", "September", "October", "November", "December">>

\* datetime.fromisoformat(s) for "YYYY-MM-DD" and "YYYY-MM-DD?HH:MM:SS";
\* ok = FALSE stands for the ValueError it raises on anything else.
\* (day, secs) orders the parsed instants as datetime's comparison does.
ParseIso(s) ==
  LET y  == StrToInt(SubSeq(s, 1, 4))
      m  == StrToInt(SubSeq(s, 6, 7))
      d  == StrToInt(SubSeq(s, 9, 10))
      hasTime == Len(s) = 19
      h  == IF hasTime THEN StrToInt(SubSeq(s, 12, 13)) ELSE 0
      mi == IF hasTime THEN StrToInt(SubSeq(s, 15, 16)) ELSE 0
      sc == IF hasTime THEN StrToInt(SubSeq(s, 18, 19)) ELSE 0
      dateOk == /\ Len(s) \in {10, 19}
                /\ Ch(s, 5) = "-" /\ Ch(s, 8) = "-"
                /\ y >= 1 /\ m >= 1 /\ m <= 12
                /\ d >= 1 /\ d <= DaysInMonth[m]
      timeOk == hasTime => /\ Ch(s, 14) = ":" /\ Ch(s, 17) = ":"
                           /\ h >= 0 /\ h <= 23 /\ mi >= 0 /\ mi <= 59
                           /\ sc >= 0 /\ sc <= 59
  IN IF dateOk /\ timeOk
     THEN [ok |-> TRUE, year |-> y, month |-> m,
           day |-> (y * 13 + m) * 32 + d, secs |-> (h * 60 + mi) * 60 + sc]
     ELSE [ok |-> FALSE, year |-> 0, month |-> 0, day |-> 0, secs |-> 0]

\* a < b on two parsed datetimes
DtLess(a, b) == a.day < b.day \/ (a.day = b.day /\ a.secs < b.secs)

\* PurePosixPath(s).parts without the root: empty and "." segments are dropped
PathSegs(s) == SelectSeq(Split(s), LAMBDA p : p # "" /\ p # ".")

\* PurePosixPath(s).root: exactly two leading slashes are kept, any other number is one
PathRoot(s) ==
  IF StartsWith(s, "//") /\ ~StartsWith(s, "///") THEN "//"
  ELSE IF StartsWith(s, "/") THEN "/"
  ELSE ""

\* PurePosixPath(s).name
PathName(s) == LET segs == PathSegs(s) IN IF Len(segs) = 0 THEN "" ELSE segs[Len(segs)]

\* PurePosixPath(s).suffix: from the last dot, unless it is the first or the last character
PathSuffix(s) ==
  LET name == PathName(s)
      j == RFind(name, ".")
  IN IF 1 < j /\ j < Len(name) THEN SubSeq(name, j, Len(name)) ELSE ""

\* PurePosixPath(s).stem
PathStem(s) ==
  LET name == PathName(s)
      j == RFind(name, ".")
  IN IF 1 < j /\ j < Len(name) THEN SubSeq(name, 1, j - 1) ELSE name

\* str(PurePosixPath(s).parent)
PathParent(s) ==
  LET segs == PathSegs(s)
      root == PathRoot(s)
  IN IF Len(segs) <= 1
     THEN (IF root = "" THEN "." ELSE root)
     ELSE root \o Join(SubSeq(segs, 1, Len(segs) - 1))

(***************************************************************************)
(* Match engine and template renderer (planning/rules.py)                  *)
(*                                                                         *)
(* A file record is [rel_path, ext, size_bytes, modified, date_taken]; a   *)
(* key the dict lacks is the default file_info.get gives it ("" or 0).     *)
(* A criteria is [ext_in, ext_not_in, parent_name_contains_any,            *)
(* path_contains_any, min_size_bytes, max_size_bytes, date_start,          *)
(* date_end], each None or Some(value).                                    *)
(***************************************************************************)

InSeq(x, seq) == \E i \in 1..Len(seq) : seq[i] = x

\* [e.lower() if e.startswith('.') else f'.{e.lower()}' for e in exts]
NormalizedExts(exts) ==
  [i \in 1..Len(exts) |->
     IF StartsWith(exts[i], ".") THEN Lower(exts[i]) ELSE "." \o Lower(exts[i])]

\* file_info.get("date_taken") or file_info.get("modified", "")
Modified(f) == IF f.date_taken # "" THEN f.date_taken ELSE f.modified

\* parts[-2] if len(parts) > 1 else ""
ParentName(rel_path) ==
  LET parts == Split(rel_path)
  IN IF Len(parts) > 1 THEN parts[Len(parts) - 1] ELSE ""

\* a truthy date bound: neither None nor ""
Truthy(o) == ~o.isNone /\ o.v # ""

\* the date-range block of MatchCriteria.matches; FALSE is "return False"
DateRangeOk(c, f) ==
  LET modified == Modified(f)
      dt == ParseIso(modified)
  IN IF (c.date_start.isNone /\ c.date_end.isNone) \/ modified = "" THEN TRUE
     ELSE IF ~dt.ok THEN ~(Truthy(c.date_start) \/ Truthy(c.date_end))
     ELSE IF Truthy(c.date_start) /\ ~ParseIso(c.date_start.v).ok THEN FALSE
     ELSE IF Truthy(c.date_start) /\ DtLess(dt, ParseIso(c.date_start.v)) THEN FALSE
     ELSE IF Truthy(c.date_end) /\ ~ParseIso(c.date_end.v).ok THEN FALSE
     ELSE IF Truthy(c.date_end) /\ DtLess(ParseIso(c.date_end.v), dt) THEN FALSE
     ELSE TRUE

\* MatchCriteria.matches(file_info)
Matches(c, f) ==
  LET ext == Lower(f.ext)
      parent_lower == Lower(ParentName(f.rel_path))
      path_lower == Lower(f.rel_path)
  IN /\ c.ext_in.isNone \/ InSeq(ext, NormalizedExts(c.ext_in.v))
     /\ c.ext_not_in.isNone \/ ~InSeq(ext, NormalizedExts(c.ext_not_in.v))
     /\ c.parent_name_contains_any.isNone
          \/ \E i \in 1..Len(c.parent_name_contains_any.v) :
               Contains(parent_lower, Lower(c.parent_name_contains_any.v[i]))
     /\ c.path_contains_any.isNone
          \/ \E i \in 1..Len(c.path_contains_any.v) :
               Contains(path_lower, Lower(c.path_contains_any.v[i]))
     /\ c.min_size_bytes.isNone \/ ~(f.size_bytes < c.min_size_bytes.v)
     /\ c.max_size_bytes.isNone \/ ~(f.size_bytes > c.max_size_bytes.v)
     /\ DateRangeOk(c, f)

PhotoExts == {"jpg", "jpeg", "png", "gif", "bmp", "tiff", "webp", "heic", "raw", "cr2", "nef"}
VideoExts == {"mp4", "mov", "avi", "mkv", "wmv", "flv", "webm", "m4v"}
DocumentExts == {"pdf", "doc", "docx", "txt", "rtf", "odt", "xls", "xlsx", "ppt", "pptx", "md"}

\* the {type} classification of render_target
FileType(ext) ==
  LET ext_lower == Lower(ext)
  IN IF ext_lower \in PhotoExts THEN "Photos"
     ELSE IF ext_lower \in VideoExts THEN "Videos"
     ELSE IF ext_lower \in DocumentExts THEN "Documents"
     ELSE "Misc"

\* the segment-deduplication loop of render_target: parts[i] is dropped when it
\* equals parts[i-1] or parts[i-1] ends with " - <it>" or " <it>"
RECURSIVE DedupFrom(_, _)
DedupFrom(parts, i) ==
  IF i > Len(parts) THEN <<>>
  ELSE LET prev == parts[i - 1]
           curr == parts[i]
           drop == \/ curr = prev
                   \/ EndsWith(prev, " - " \o curr)
                   \/ EndsWith(prev, " " \o curr)
       IN (IF drop THEN <<>> ELSE <<curr>>) \o DedupFrom(parts, i + 1)

DedupSegments(target) ==
  LET parts == Split(target)
  IN Join(<<parts[1]>> \o DedupFrom(parts, 2))

\* the chain of target.replace(...) calls of render_target, in the order of the code
ReplaceAll(template, year, month, ext, parent, original_name, event) ==
  Replace(Replace(Replace(Replace(Replace(Replace(Replace(template,
    "{year}", year), "{month}", month), "{ext}", ext), "{type}", FileType(ext)),
    "{parent}", parent), "{original_name}", original_name), "{event_name}", event)

\* year and month of a parsed timestamp, "Unknown" when it does not parse
YearOf(dt) == IF dt.ok THEN IntToStr(dt.year) ELSE "Unknown"
MonthOf(dt) == IF dt.ok THEN MonthNames[dt.month] ELSE "Unknown"

\* the template substitution of render_target ("" parses to no date: Unknown)
Substitute(rule, f, original_name, parent) ==
  ReplaceAll(rule.target_template, YearOf(ParseIso(Modified(f))),
             MonthOf(ParseIso(Modified(f))), LStripCh(f.ext, "."), parent,
             original_name, IF rule.event_name # "" THEN rule.event_name ELSE "Misc")

\* "Ensure path ends with filename", then the deduplication
WithFilename(target, original_name) ==
  DedupSegments(IF EndsWith(target, original_name) THEN target
                ELSE RStrip(target) \o "/" \o original_name)

\* parts[-1]
OriginalName(parts) == parts[Len(parts)]

\* render_target once rel_path is split
RenderParts(rule, f, parts) ==
  IF OriginalName(parts) = "" THEN f.rel_path
  ELSE WithFilename(Substitute(rule, f, OriginalName(parts),
                               IF Len(parts) > 1 THEN parts[Len(parts) - 1] ELSE ""),
                    OriginalName(parts))

\* OrganizationRule.render_target(file_info)
RenderTarget(rule, f) ==
  IF f.rel_path = "" THEN f.rel_path ELSE RenderParts(rule, f, Split(f.rel_path))

\* insertion of one rule into a list sorted by descending priority, before the
\* first rule whose priority is not higher
RECURSIVE InsertRule(_, _)
InsertRule(r, sorted) ==
  IF Len(sorted) = 0 THEN <<r>>
  ELSE IF sorted[1].priority > r.priority THEN <<sorted[1]>> \o InsertRule(r, Tail(sorted))
  ELSE <<r>> \o sorted

\* sorted(rules, key=lambda r: -r.priority): stable, highest priority first
RECURSIVE SortedRules(_)
SortedRules(rs) ==
  IF Len(rs) = 0 THEN <<>> ELSE InsertRule(rs[1], SortedRules(Tail(rs)))

(***************************************************************************)
(* Plan generator: generate_moves_from_rules (planning/rules.py)           *)
(***************************************************************************)

\* Safety ceiling of the collision loop
CollisionLimit == 100000

\* next_counters.get(new_rel, 1)
CounterGet(ctrs, key) == IF key \in DOMAIN ctrs THEN ctrs[key] ELSE 1

\* (mutation of CandidateIn: the counter is appended after the extension)
CandidateIn_AfterExt(parent, stem, counter, suffix) ==
  NormSlashes(IF parent # "" THEN parent \o "/" \o stem \o suffix \o "_" \o IntToStr(counter)
              ELSE stem \o suffix \o "_" \o IntToStr(counter))

\* f"{parent}/{stem}_{counter}{suffix}", or without "{parent}/" when parent is ""
CandidateIn(parent, stem, counter, suffix) ==
  NormSlashes(IF parent # "" THEN parent \o "/" \o stem \o "_" \o IntToStr(counter) \o suffix
              ELSE stem \o "_" \o IntToStr(counter) \o suffix)

\* str(path_obj.parent), with "." replaced by ""
ParentOrEmpty(parent) == IF parent = "." THEN "" ELSE parent

\* the candidate built from Path(new_rel) for one counter
Candidate(new_rel, counter) ==
  CandidateIn(ParentOrEmpty(PathParent(new_rel)), PathStem(new_rel), counter,
              PathSuffix(new_rel))

\* (mutation of FindSlot: past the ceiling the loop takes the next counter)
FindSlot_NoCeiling(new_rel, counter, seen) ==
  IF Candidate(new_rel, counter) \notin seen THEN counter ELSE counter + 1

\* the while loop: the first counter >= the given one whose candidate is not
\* assigned; 0 when the ceiling is passed first (collision_resolved stays False)
RECURSIVE FindSlot(_, _, _)
FindSlot(new_rel, counter, seen) ==
  IF counter > CollisionLimit THEN 0
  ELSE IF Candidate(new_rel, counter) \notin seen THEN counter
  ELSE FindSlot(new_rel, counter + 1, seen)

\* (mutation of IsNoOp: the no-op test is dropped)
IsNoOp_Never(old_rel, new_rel) == FALSE

\* the test of "Skip no-op moves"
IsNoOp(old_rel, new_rel) == old_rel = new_rel

\* (mutation of SeenAdd: the assigned destination is not remembered)
SeenAdd_Forgets(seen, new_rel) == seen

\* seen_destinations.add(new_rel)
SeenAdd(seen, new_rel) == seen \cup {new_rel}

\* (mutation of NextCounter: the cached counter skips one suffix)
NextCounter_Skips(counter) == counter + 2

\* the value cached by next_counters[new_rel] = counter + 1
NextCounter(counter) == counter + 1

\* (mutation of FreshSeen: the set outlives the call, as a module-level set would)
FreshSeen_Leaks(prev) == prev

\* seen_destinations = set() at the start of a call; prev is what an earlier call left
FreshSeen(prev) == {}

\* next_counters = {} at the start of a call; prev is what an earlier call left
FreshCounters(prev) == <<>>

NoMove == [old_rel |-> "", new_rel |-> "", reason |-> ""]

\* What the loop body did with one record.
\* rule: index (by priority) of the rule that ended the rule loop, 0 when none did;
\* base: what that rule rendered; counter: the suffix given, 0 without collision.
Outcome(yielded, old_rel, new_rel, reason, seen, ctrs, rule, base, counter) ==
  [yielded |-> yielded,
   move |-> IF yielded THEN [old_rel |-> old_rel, new_rel |-> new_rel, reason |-> reason]
            ELSE NoMove,
   seen |-> seen, ctrs |-> ctrs, rule |-> rule, base |-> base, counter |-> counter]

\* "Handle collisions" once the loop has ended with counter k (0: ceiling passed,
\* collision_resolved is False and "break" skips the record)
Resolved(old_rel, rule, i, seen, ctrs, new_rel, k) ==
  IF k = 0
  THEN Outcome(FALSE, old_rel, new_rel, rule.name, seen, ctrs, i, new_rel, 0)
  ELSE Outcome(TRUE, old_rel, Candidate(new_rel, k), rule.name,
               SeenAdd(seen, Candidate(new_rel, k)),
               (new_rel :> NextCounter(k)) @@ ctrs, i, new_rel, k)

\* The rest of the rule loop's body for a matching rule that rendered a path
\* other than the record's own
Emit(old_rel, rule, i, seen, ctrs, new_rel) ==
  IF new_rel \in seen
  THEN Resolved(old_rel, rule, i, seen, ctrs, new_rel,
                FindSlot(new_rel, CounterGet(ctrs, new_rel), seen))
  ELSE Outcome(TRUE, old_rel, new_rel, rule.name, SeenAdd(seen, new_rel), ctrs,
               i, new_rel, 0)

\* The body of "for rule in sorted_rules" from rule i on, for one record
RECURSIVE ApplyRules(_, _, _, _, _, _)
RECURSIVE Rendered(_, _, _, _, _, _, _)
ApplyRules(f, old_rel, rs, i, seen, ctrs) ==
  IF i > Len(rs) THEN Outcome(FALSE, old_rel, "", "", seen, ctrs, 0, "", 0)
  ELSE IF ~Matches(rs[i].match, f) THEN ApplyRules(f, old_rel, rs, i + 1, seen, ctrs)
  ELSE Rendered(f, old_rel, rs, i, seen, ctrs, NormSlashes(RenderTarget(rs[i], f)))

\* after new_rel is rendered: a no-op makes "continue" resume the rule loop with
\* the next rule
Rendered(f, old_rel, rs, i, seen, ctrs, new_rel) ==
  IF IsNoOp(old_rel, new_rel) THEN ApplyRules(f, old_rel, rs, i + 1, seen, ctrs)
  ELSE Emit(old_rel, rs[i], i, seen, ctrs, new_rel)

\* The loop body of "for file_info in files" for one record
ProcessRecord(f, rs, seen, ctrs) ==
  IF f.rel_path = "" THEN Outcome(FALSE, "", "", "", seen, ctrs, 0, "", 0)
  ELSE ApplyRules(f, NormSlashes(f.rel_path), rs, 1, seen, ctrs)

\* One iteration of "for file_info in files": the whole loop body for one record
GenStep ==
  /\ gpc = "iter"
  /\ gi <= Len(files)
  /\ \E r \in {ProcessRecord(files[gi], SortedRules(rules), seen_destinations,
                             next_counters)} :
        /\ moves' = IF r.yielded THEN Append(moves, r.move) ELSE moves
        /\ seen_destinations' = r.seen
        /\ next_counters' = r.ctrs
        /\ gen_log' = Append(gen_log,
                        [yielded |-> r.yielded, rule |-> r.rule, base |-> r.base,
                         counter |-> r.counter,
                         idx |-> IF r.yielded THEN Len(moves) + 1 ELSE 0])
  /\ gi' = gi + 1
  /\ UNCHANGED <<files, rules, gpc, run, first_moves, coverage, vars_fs, vars_val, vars_exec>>

\* The record stream is exhausted: the generator returns
GenFinish ==
  /\ gpc = "iter"
  /\ gi > Len(files)
  /\ gpc' = "done"
  /\ UNCHANGED <<files, rules, gi, seen_destinations, next_counters, moves, gen_log,
                 run, first_moves, coverage, vars_fs, vars_val, vars_exec>>

\* A second, independent call of generate_moves_from_rules on the same rule list
\* and the same record sequence
GenCallAgain ==
  /\ gpc = "done"
  /\ run = 1
  /\ run' = 2
  /\ first_moves' = moves
  /\ seen_destinations' = FreshSeen(seen_destinations)
  /\ next_counters' = FreshCounters(next_counters)
  /\ moves' = <<>>
  /\ gen_log' = <<>>
  /\ gi' = 1
  /\ gpc' = "iter"
  /\ UNCHANGED <<files, rules, coverage, vars_fs, vars_val, vars_exec>>

\* the records after the plan was carried out: every moved record is at its new_rel
Relocated(fs, ms, log) ==
  [i \in 1..Len(fs) |->
     IF log[i].yielded THEN [fs[i] EXCEPT !.rel_path = ms[log[i].idx].new_rel] ELSE fs[i]]

\* The tree is reorganized by the plan, scanned again, and generate_moves_from_rules
\* is called on the new records with the same rules
GenRelocate ==
  /\ gpc = "done"
  /\ run = 1
  /\ run' = 2
  /\ files' = Relocated(files, moves, gen_log)
  /\ first_moves' = moves
  /\ seen_destinations' = {}
  /\ next_counters' = <<>>
  /\ moves' = <<>>
  /\ gen_log' = <<>>
  /\ gi' = 1
  /\ gpc' = "iter"
  /\ UNCHANGED <<rules, coverage, vars_fs, vars_val, vars_exec>>

(***************************************************************************)
(* Bundle detection (utils.py) and the filesystem under root               *)
(*                                                                         *)
(* The tree under root is fs_files (relative path -> identity of the file) *)
(* and fs_dirs (the relative paths of the directories, "" being root).     *)
(* Paths are looked up the way pathlib joins them to root: empty and "."   *)
(* segments drop out.  os.rename has its POSIX meaning.                    *)
(***************************************************************************)

MACOS_BUNDLE_EXTENSIONS ==
  {".app", ".bundle", ".plugin", ".kext", ".prefpane", ".qlgenerator", ".mdimporter",
   ".xpc", ".appex", ".dvdproj", ".imovieproject", ".fcpproject", ".fcpbundle", ".fcp",
   ".dspproj", ".prproj", ".photoslibrary", ".aplibrary"}

BUNDLE_FOLDERS ==
  {"VIDEO_TS", "AUDIO_TS", "HVDVD_TS", "BDMV", "CERTIFICATE", "DCIM", "PRIVATE", "AVCHD",
   "MP_ROOT", "Capture Scratch", "Render Files", "Waveform Cache Files",
   "Thumbnail Cache Files", "Final Cut Pro Documents"}

\* is_known_bundle_folder(name)
IsKnownBundleFolder(name) == name \in BUNDLE_FOLDERS

\* any(path_lower.endswith(ext) for ext in MACOS_BUNDLE_EXTENSIONS), path_lower given
EndsWithBundleExt(path_lower) == \E ext \in MACOS_BUNDLE_EXTENSIONS : EndsWith(path_lower, ext)

\* is_macos_bundle(path_segment)
IsMacosBundle(path_segment) == EndsWithBundleExt(Lower(path_segment))

\* the loop "for part in parts[:-1]" of path_contains_bundle
AnyPartIsMacosBundle(parts) == \E i \in 1..(Len(parts) - 1) : IsMacosBundle(parts[i])

\* path_contains_bundle(rel_path)
PathContainsBundle(rel_path) == AnyPartIsMacosBundle(Split(NormSlashes(rel_path)))

\* the path, relative to root, that root / rel denotes
FsKey(rel) == Join(PathSegs(rel))

\* Path.is_file(), Path.is_dir(), Path.exists() of root / rel
IsFileAt(ff, key) == key \in DOMAIN ff
IsDirAt(dd, key) == key \in dd
ExistsAt(ff, dd, key) == IsFileAt(ff, key) \/ IsDirAt(dd, key)

(***************************************************************************)
(* Plan validator: validate_plan (planning/validator.py)                   *)
(***************************************************************************)

\* move.get(key, ""), then .replace("\\", "/").strip("/")
NormRel(o) == Strip(NormSlashes(IF o.isNone THEN "" ELSE o.v))

\* '/'.join(rel.split('/')[:-1]) and rel.split('/')[-1], given the split
DirOfParts(parts) == Join(SubSeq(parts, 1, Len(parts) - 1))
NameOfParts(parts) == parts[Len(parts)]

\* old_dir == new_dir and old_name != new_name
IsRenameParts(o, n) == DirOfParts(o) = DirOfParts(n) /\ NameOfParts(o) # NameOfParts(n)
IsRename(old_rel, new_rel) == IsRenameParts(Split(old_rel), Split(new_rel))

\* src_path.is_dir() and (is_known_bundle_folder(name) or is_macos_bundle(name))
IsBundleDirAt(dd, key) ==
  IsDirAt(dd, key) /\ (IsKnownBundleFolder(PathName(key)) \/ IsMacosBundle(PathName(key)))

\* the checks of one loop iteration that look at the move alone and at the disk,
\* in the order of the code: "ok" or the reason the move is dropped
MoveCheck(ff, dd, old_rel, new_rel) ==
  IF IsRename(old_rel, new_rel) THEN "rename"
  ELSE IF PathContainsBundle(old_rel) THEN "source inside bundle"
  ELSE IF PathContainsBundle(new_rel) THEN "destination inside bundle"
  ELSE IF ~ExistsAt(ff, dd, FsKey(old_rel)) THEN "file not found"
  ELSE IF ~IsFileAt(ff, FsKey(old_rel)) /\ ~IsBundleDirAt(dd, FsKey(old_rel)) THEN "not a file"
  ELSE "ok"

\* (mutation of IsTrueCollision: a second source for a destination is taken for a duplicate)
IsTrueCollision_Never(existing_source, old_rel) == FALSE

\* existing_source != old_rel
IsTrueCollision(existing_source, old_rel) == existing_source # old_rel

\* root = root.resolve(); if not root.exists(): raise RuntimeError
ValStart ==
  /\ vpc = "start"
  /\ vpc' = IF root_exists THEN "loop" ELSE "fatal"
  /\ UNCHANGED <<vplan, vi, destinations, seen_moves, warnings, collisions, valid_moves,
                 vresult, vars_fs, vars_gen, vars_exec>>

\* (mutation of ValBody: an accepted move is put in front of valid_moves)
ValBody_Prepends(old_rel, new_rel, chk) ==
  IF old_rel = new_rel \/ <<old_rel, new_rel>> \in seen_moves
  THEN UNCHANGED <<destinations, seen_moves, warnings, collisions, valid_moves>>
  ELSE /\ seen_moves' = seen_moves \cup {<<old_rel, new_rel>>}
       /\ IF chk # "ok"
          THEN /\ warnings' = Append(warnings, chk)
               /\ UNCHANGED <<destinations, collisions, valid_moves>>
          ELSE IF new_rel \in DOMAIN destinations
          THEN /\ collisions' = IF IsTrueCollision(destinations[new_rel], old_rel)
                                THEN Append(collisions, <<destinations[new_rel], old_rel, new_rel>>)
                                ELSE collisions
               /\ UNCHANGED <<destinations, warnings, valid_moves>>
          ELSE /\ destinations' = (new_rel :> old_rel) @@ destinations
               /\ valid_moves' = <<[old_rel |-> old_rel, new_rel |-> new_rel]>> \o valid_moves
               /\ UNCHANGED <<warnings, collisions>>

\* One iteration of "for move in plan.get('moves', [])", old_rel and new_rel normalized
ValBody(old_rel, new_rel, chk) ==
  IF old_rel = new_rel \/ <<old_rel, new_rel>> \in seen_moves
  THEN UNCHANGED <<destinations, seen_moves, warnings, collisions, valid_moves>>
  ELSE /\ seen_moves' = seen_moves \cup {<<old_rel, new_rel>>}
       /\ IF chk # "ok"
          THEN /\ warnings' = Append(warnings, chk)
               /\ UNCHANGED <<destinations, collisions, valid_moves>>
          ELSE IF new_rel \in DOMAIN destinations
          THEN /\ collisions' = IF IsTrueCollision(destinations[new_rel], old_rel)
                                THEN Append(collisions, <<destinations[new_rel], old_rel, new_rel>>)
                                ELSE collisions
               /\ UNCHANGED <<destinations, warnings, valid_moves>>
          ELSE /\ destinations' = (new_rel :> old_rel) @@ destinations
               /\ valid_moves' = Append(valid_moves, [old_rel |-> old_rel, new_rel |-> new_rel])
               /\ UNCHANGED <<warnings, collisions>>

ValStep ==
  /\ vpc = "loop"
  /\ vi <= Len(vplan)
  /\ \E old_rel \in {NormRel(vplan[vi].old_rel)} : \E new_rel \in {NormRel(vplan[vi].new_rel)} :
       \E chk \in {MoveCheck(fs_files, fs_dirs, old_rel, new_rel)} :
          ValBody(old_rel, new_rel, chk)
  /\ vi' = vi + 1
  /\ UNCHANGED <<vplan, vpc, vresult, vars_fs, vars_gen, vars_exec>>

\* After the loop: "Collisions are hard failures", else return valid_moves
ValFinish ==
  /\ vpc = "loop"
  /\ vi > Len(vplan)
  /\ IF Len(collisions) > 0
     THEN vpc' = "raised" /\ vresult' = None
     ELSE vpc' = "returned" /\ vresult' = Some(valid_moves)
  /\ UNCHANGED <<vplan, vi, destinations, seen_moves, warnings, collisions, valid_moves,
                 vars_fs, vars_gen, vars_exec>>

(***************************************************************************)
(* Filesystem operations of the executor (executor.py)                     *)
(***************************************************************************)

\* dst.parent, relative to root
ParentKey(key) == Join(SubSeq(PathSegs(key), 1, Len(PathSegs(key)) - 1))

\* the path and its ancestors up to root
WithAncestors(key) == {Join(SubSeq(PathSegs(key), 1, k)) : k \in 0..Len(PathSegs(key))}

\* Path.mkdir(parents=True, exist_ok=True) raises OSError: the path or an ancestor is a file
MkdirFails(ff, key) == \E a \in WithAncestors(key) : IsFileAt(ff, a)

\* the directories after Path.mkdir(parents=True, exist_ok=True)
MkdirP(ff, dd, key) == IF MkdirFails(ff, key) THEN dd ELSE dd \cup WithAncestors(key)

\* os.stat(path).st_dev: everything below a mount point is on the device mounted there
MountPoints == {"mnt"}
RootDevice == 1
OtherDevice == 2
DeviceOf(key) ==
  IF Len(PathSegs(key)) > 0 /\ PathSegs(key)[1] \in MountPoints THEN OtherDevice ELSE RootDevice

\* p is d or lies below d
Under(p, d) == p = d \/ StartsWith(p, d \o "/")

\* the path p below src, once src has become real
Rekey(p, src, real) == real \o SubSeq(p, Len(src) + 1, Len(p))

\* shutil.move: a destination that is a directory receives src under its own name
RealDst(dd, src, dst) ==
  IF IsDirAt(dd, dst) /\ dst # src
  THEN (IF dst = "" THEN PathName(src) ELSE dst \o "/" \o PathName(src))
  ELSE dst

\* What shutil.move(src, dst) does, real being RealDst: "file" and "tree" relocate a
\* file or a directory, "same" is a rename onto itself, "exists" is FileExistsError,
\* "error" any other exception
MoveKind(ff, dd, src, dst, real) ==
  IF ~ExistsAt(ff, dd, src) THEN "error"
  ELSE IF real = src THEN "same"
  ELSE IF real # dst /\ ExistsAt(ff, dd, real) THEN "error"
  ELSE IF IsDirAt(dd, src)
  THEN (IF Under(real, src) THEN "error"
        ELSE IF IsFileAt(ff, real) THEN "exists"
        ELSE IF MkdirFails(ff, ParentKey(real)) THEN "error"
        ELSE "tree")
  ELSE IF ~IsDirAt(dd, ParentKey(real)) THEN "error"
  ELSE "file"

\* os.rename of a file: the destination entry now names the file, replacing what was there
FileMoved(ff, src, real) ==
  [q \in (DOMAIN ff \ {src}) \cup {real} |-> IF q = real THEN ff[src] ELSE ff[q]]

\* the files after a directory src has become real
TreeFiles(ff, src, real) ==
  [q \in {IF Under(p, src) THEN Rekey(p, src, real) ELSE p : p \in DOMAIN ff} |->
     IF Under(q, real) THEN ff[Rekey(q, real, src)] ELSE ff[q]]

\* the directories after a directory src has become real
TreeDirs(dd, src, real) ==
  {IF Under(d, src) THEN Rekey(d, src, real) ELSE d : d \in dd} \cup WithAncestors(ParentKey(real))

FilesAfterMove(kind, ff, src, real) ==
  IF kind = "file" THEN FileMoved(ff, src, real)
  ELSE IF kind = "tree" THEN TreeFiles(ff, src, real)
  ELSE ff

DirsAfterMove(kind, dd, src, real) == IF kind = "tree" THEN TreeDirs(dd, src, real) ELSE dd

\* Order of the characters that occur in paths, by code point
CodeOrder == " -./0123456789ABCDEFGHIJKLMNOPQRSTUVWXYZ\\_abcdefghijklmnopqrstuvwxyz"
CharCode(c) == Find(CodeOrder, c, 1)

\* a < b for Python strings
RECURSIVE StrLess(_, _)
StrLess(a, b) ==
  IF Len(b) = 0 THEN FALSE
  ELSE IF Len(a) = 0 THEN TRUE
  ELSE IF Ch(a, 1) # Ch(b, 1) THEN CharCode(Ch(a, 1)) < CharCode(Ch(b, 1))
  ELSE StrLess(Tail(a), Tail(b))

\* sorted(list(set(xs)))
RECURSIVE SortedSet(_)
SortedSet(S) ==
  IF S = {} THEN <<>>
  ELSE LET least == CHOOSE x \in S : \A y \in S \ {x} : StrLess(x, y)
       IN <<least>> \o SortedSet(S \ {least})

SeqToSet(xs) == {xs[i] : i \in 1..Len(xs)}

(***************************************************************************)
(* cleanup_empty_dirs (executor.py)                                        *)
(***************************************************************************)

Depth(key) == Len(PathSegs(key))

MaxDepth(dd) == CHOOSE n \in 0..Cardinality(dd) : (\A d \in dd : Depth(d) <= n) /\ (n = 0 \/ \E d \in dd : Depth(d) = n)

\* any part of the path is a bundle: the directory is protected
AnyPartIsBundle(parts) ==
  \E i \in 1..Len(parts) : IsKnownBundleFolder(parts[i]) \/ IsMacosBundle(parts[i])
\* (mutation of IsProtected: no directory is protected)
IsProtected_Never(key) == FALSE

IsProtected(key) == AnyPartIsBundle(PathSegs(key))

\* os.rmdir fails: the directory has an entry
HasEntries(ff, dd, d) ==
  \/ \E q \in DOMAIN ff : ParentKey(q) = d
  \/ \E c \in dd : c # "" /\ ParentKey(c) = d

\* the directories of depth n that the walk removes
\* (os.rmdir of a mount point fails as well: the directory is in use)
RemovedAt(ff, dd, keep_folders, n) ==
  {d \in dd : /\ Depth(d) = n /\ d \notin keep_folders /\ ~IsProtected(d)
              /\ ~HasEntries(ff, dd, d) /\ d \notin MountPoints}

\* (mutation of CleanupFrom: emptiness is decided for all directories before any is removed)
CleanupFrom_OnePass(ff, dd, keep_folders, n) ==
  dd \ UNION {RemovedAt(ff, dd, keep_folders, k) : k \in 1..n}

\* os.walk(root, topdown=False): children are visited before their parent, root is skipped
RECURSIVE CleanupFrom(_, _, _, _)
CleanupFrom(ff, dd, keep_folders, n) ==
  IF n = 0 THEN dd
  ELSE CleanupFrom(ff, dd \ RemovedAt(ff, dd, keep_folders, n), keep_folders, n - 1)

\* the directories left by cleanup_empty_dirs(root, keep_folders)
CleanupEmptyDirs(ff, dd, keep_folders) == CleanupFrom(ff, dd, keep_folders, MaxDepth(dd))

(***************************************************************************)
(* apply_plan and _move_file (executor.py)                                 *)
(***************************************************************************)

MAX_WORKERS == 8
BATCH_SIZE == 1000

\* folder_rel.replace("\\", "/").strip("/")
NormFolder(folder_rel) == Strip(NormSlashes(folder_rel))

\* (mutation of FolderMkdir: the folder is made in a dry run too)
FolderMkdir_Always(dry, ff, dd, key) == MkdirP(ff, dd, key)

\* if dry_run: pass / else: folder_path.mkdir(parents=True, exist_ok=True)
FolderMkdir(dry, ff, dd, key) == IF dry THEN dd ELSE MkdirP(ff, dd, key)

\* the loop "for folder_rel in unique_folders": whether mkdir raised, the directories
\* and created_folders afterwards
RECURSIVE CreateFolders(_, _, _, _, _)
RECURSIVE CreateOne(_, _, _, _, _, _)
CreateFolders(todo, ff, dd, created, dry) ==
  IF Len(todo) = 0 THEN [raised |-> FALSE, dirs |-> dd, created |-> created]
  ELSE CreateOne(NormFolder(Head(todo)), Tail(todo), ff, dd, created, dry)

CreateOne(folder_rel, rest, ff, dd, created, dry) ==
  IF folder_rel = "" \/ ExistsAt(ff, dd, FsKey(folder_rel))
  THEN CreateFolders(rest, ff, dd, created, dry)
  ELSE IF ~dry /\ MkdirFails(ff, FsKey(folder_rel))
  THEN [raised |-> TRUE, dirs |-> dd, created |-> created]
  ELSE CreateFolders(rest, ff, FolderMkdir(dry, ff, dd, FsKey(folder_rel)),
                     Append(created, folder_rel), dry)

\* valid_moves_filter: items with both keys, paths normalized
IsMoveItem(item) == "old_rel" \in DOMAIN item /\ "new_rel" \in DOMAIN item
NormItem(item) ==
  [old_rel |-> Strip(NormSlashes(item.old_rel)), new_rel |-> Strip(NormSlashes(item.new_rel))]
\* (mutation of ValidMovesFilter: the loop ends at the first item without both fields)
ValidMovesFilter_StopsAtGap(gen) ==
  LET gaps == {i \in 1..Len(gen) : ~IsMoveItem(gen[i])}
      n == IF gaps = {} THEN Len(gen) ELSE (CHOOSE i \in gaps : \A j \in gaps : i <= j) - 1
  IN  [i \in 1..n |-> NormItem(gen[i])]

RECURSIVE ValidMovesFilter(_)
ValidMovesFilter(gen) ==
  IF Len(gen) = 0 THEN <<>>
  ELSE IF IsMoveItem(Head(gen)) THEN <<NormItem(Head(gen))>> \o ValidMovesFilter(Tail(gen))
  ELSE ValidMovesFilter(Tail(gen))

\* load_jsonl(path): the objects of the lines of the file, in order
LoadJsonl(lines) == lines

\* header.get("type") in ["plan_header", "undo_header"]
IsHeader(item) == "type" \in DOMAIN item /\ item.type \in {"plan_header", "undo_header"}

\* header.get("folders_to_create", [])
HeaderFolders(item) ==
  IF "folders_to_create" \in DOMAIN item THEN item.folders_to_create ELSE <<>>

\* folders_to_create and moves_source as read from the plan argument
PlanFolders(plan) ==
  IF plan.kind = "dict" THEN plan.folders_to_create
  ELSE IF Len(LoadJsonl(plan.lines)) > 0 /\ IsHeader(Head(LoadJsonl(plan.lines)))
  THEN HeaderFolders(Head(LoadJsonl(plan.lines)))
  ELSE <<>>

PlanMoves(plan) ==
  IF plan.kind = "dict" THEN plan.moves
  ELSE IF Len(LoadJsonl(plan.lines)) > 0 /\ IsHeader(Head(LoadJsonl(plan.lines)))
  THEN Tail(LoadJsonl(plan.lines))
  ELSE LoadJsonl(plan.lines)

UndoHeader == [type |-> "undo_header", folders_to_create |-> <<>>]

\* (mutation of UndoMove: the entry repeats the move instead of inverting it)
UndoMove_Forward(res) == [old_rel |-> res.old_rel, new_rel |-> res.new_rel, reason |-> "Undo move"]

\* undo_move = {"old_rel": res["new_rel"], "new_rel": res["old_rel"], "reason": "Undo move"}
UndoMove(res) == [old_rel |-> res.new_rel, new_rel |-> res.old_rel, reason |-> "Undo move"]

\* (mutation of RootNotFound: apply_plan goes on without a root)
RootNotFound_Ignored(exists) == FALSE

\* if not root.exists(): raise RuntimeError("Root directory not found")
RootNotFound(exists) == ~exists

\* root.exists() check, plan header, valid_moves_filter, opening of the undo file
ExecStart ==
  /\ epc = "start"
  /\ IF RootNotFound(root_exists)
     THEN /\ epc' = "fatal"
          /\ UNCHANGED <<folders_to_create, moves_source, undo_file, undo_open>>
     ELSE /\ folders_to_create' = PlanFolders(plan_arg)
          /\ moves_source' = ValidMovesFilter(PlanMoves(plan_arg))
          /\ undo_file' = IF dry_run THEN None ELSE Some(<<UndoHeader>>)
          /\ undo_open' = ~dry_run
          /\ epc' = "folders"
  /\ UNCHANGED <<plan_arg, dry_run, allow_cross_device, created_folders, executed_moves_count,
                 failed_moves_count, cleaned_folders_count, tasks, report, call, before,
                 vars_fs, vars_gen, vars_val>>

\* "Verifying/Creating folders"; an exception of mkdir leaves through the finally clause
ExecCreateFolders ==
  /\ epc = "folders"
  /\ \E r \in {CreateFolders(SortedSet(SeqToSet(folders_to_create)), fs_files, fs_dirs,
                             <<>>, dry_run)} :
        /\ fs_dirs' = r.dirs
        /\ created_folders' = r.created
        /\ epc' = IF r.raised THEN "raised" ELSE "moves"
        /\ undo_open' = (undo_open /\ ~r.raised)
  /\ UNCHANGED <<plan_arg, dry_run, allow_cross_device, folders_to_create, moves_source,
                 executed_moves_count, failed_moves_count, cleaned_folders_count, undo_file,
                 tasks, report, call, before, root_exists, fs_files, vars_gen, vars_val>>

\* dry run: the moves are counted
ExecDryCount ==
  /\ epc = "moves"
  /\ dry_run
  /\ executed_moves_count' = Len(moves_source)
  /\ moves_source' = <<>>
  /\ epc' = "report"
  /\ UNCHANGED <<plan_arg, dry_run, allow_cross_device, folders_to_create, created_folders,
                 failed_moves_count, cleaned_folders_count, undo_file, undo_open, tasks,
                 report, call, before, vars_fs, vars_gen, vars_val>>

BatchLen(source) == IF Len(source) < BATCH_SIZE THEN Len(source) ELSE BATCH_SIZE

\* process_batch, first loop: dst_path.parent.mkdir(parents=True, exist_ok=True), OSError ignored
RECURSIVE BatchDirs(_, _, _)
BatchDirs(batch, ff, dd) ==
  IF Len(batch) = 0 THEN dd
  ELSE BatchDirs(Tail(batch), ff, MkdirP(ff, dd, ParentKey(FsKey(NormSlashes(Head(batch).new_rel)))))

NewTask(m) ==
  [old_rel |-> m.old_rel, new_rel |-> m.new_rel, pc |-> "unsubmitted", status |-> "skipped",
   error |-> "", collected |-> FALSE]

\* The next batch is taken from moves_source and its parent directories are made;
\* with no move left the pool is left and cleanup follows
ExecNextBatch ==
  /\ epc = "moves"
  /\ ~dry_run
  /\ IF Len(moves_source) = 0
     THEN /\ epc' = "cleanup"
          /\ UNCHANGED <<moves_source, tasks, fs_dirs>>
     ELSE \E n \in {BatchLen(moves_source)} :
          /\ fs_dirs' = BatchDirs(SubSeq(moves_source, 1, n), fs_files, fs_dirs)
          /\ tasks' = [i \in 1..n |-> NewTask(moves_source[i])]
          /\ moves_source' = SubSeq(moves_source, n + 1, Len(moves_source))
          /\ epc' = "submit"
  /\ UNCHANGED <<plan_arg, dry_run, allow_cross_device, folders_to_create, created_folders,
                 executed_moves_count, failed_moves_count, cleaned_folders_count, undo_file,
                 undo_open, report, call, before, root_exists, fs_files, vars_gen, vars_val>>

Unsubmitted == {t \in DOMAIN tasks : tasks[t].pc = "unsubmitted"}

\* executor.submit(_move_file, ...) for the next move of the batch
ExecSubmit ==
  /\ epc = "submit"
  /\ \E t \in Unsubmitted :
        /\ \A u \in Unsubmitted : t <= u
        /\ tasks' = [tasks EXCEPT ![t].pc = "check_dst"]
        /\ epc' = IF Unsubmitted = {t} THEN "collect" ELSE "submit"
  /\ UNCHANGED <<plan_arg, dry_run, allow_cross_device, folders_to_create, moves_source,
                 created_folders, executed_moves_count, failed_moves_count,
                 cleaned_folders_count, undo_file, undo_open, report, call, before,
                 vars_fs, vars_gen, vars_val>>

\* The futures a pool thread is working on
Running == {t \in DOMAIN tasks : tasks[t].pc \in {"check_src", "prepare", "move"}}

\* (mutation of Finished: every result reports the move as made)
Finished_AsMoved(task, status, error) ==
  [task EXCEPT !.pc = "finished", !.status = "moved", !.error = error]

\* res as _move_file returns it
Finished(task, status, error) ==
  [task EXCEPT !.pc = "finished", !.status = status, !.error = error]

\* what a step of _move_file leaves alone besides the tree
WorkerFrame ==
  UNCHANGED <<plan_arg, dry_run, allow_cross_device, epc, folders_to_create, moves_source,
              created_folders, executed_moves_count, failed_moves_count,
              cleaned_folders_count, undo_file, undo_open, report, call, before,
              root_exists, vars_gen, vars_val>>

\* _move_file: if dst.exists(): "Destination exists"
WorkerCheckDst(t) ==
  /\ tasks[t].pc = "check_dst"
  /\ Cardinality(Running) < MAX_WORKERS
  /\ tasks' = [tasks EXCEPT ![t] =
                 IF ExistsAt(fs_files, fs_dirs, FsKey(tasks[t].new_rel))
                 THEN Finished(tasks[t], "skipped", "Destination exists")
                 ELSE [tasks[t] EXCEPT !.pc = "check_src"]]
  /\ UNCHANGED <<fs_files, fs_dirs>>
  /\ WorkerFrame

\* _move_file: if not src.exists(): "Source not found"
WorkerCheckSrc(t) ==
  /\ tasks[t].pc = "check_src"
  /\ tasks' = [tasks EXCEPT ![t] =
                 IF ~ExistsAt(fs_files, fs_dirs, FsKey(tasks[t].old_rel))
                 THEN Finished(tasks[t], "skipped", "Source not found")
                 ELSE [tasks[t] EXCEPT !.pc = "prepare"]]
  /\ UNCHANGED <<fs_files, fs_dirs>>
  /\ WorkerFrame

\* (mutation of DeviceCheck: the devices are never compared)
DeviceCheck_Off(ff, dd, src, parent, allow) ==
  IF allow \/ ExistsAt(ff, dd, src) THEN "ok" ELSE "No such file or directory"

\* the cross-device check: "ok", or the error it ends with (os.stat raises when src is gone)
DeviceCheck(ff, dd, src, parent, allow) ==
  IF allow THEN "ok"
  ELSE IF ~ExistsAt(ff, dd, src) THEN "No such file or directory"
  ELSE IF ExistsAt(ff, dd, parent) /\ DeviceOf(parent) # RootDevice
  THEN "Destination parent on different device"
  ELSE IF DeviceOf(src) # RootDevice THEN "Source on different device"
  ELSE "ok"

\* "Defensive: Ensure parent exists": "ok", or the error of mkdir
ParentCheck(ff, dd, parent) ==
  IF ~ExistsAt(ff, dd, parent) /\ MkdirFails(ff, parent) THEN "Failed to create parent dir"
  ELSE "ok"

PrepareCheck(ff, dd, src, parent, allow) ==
  IF DeviceCheck(ff, dd, src, parent, allow) # "ok" THEN DeviceCheck(ff, dd, src, parent, allow)
  ELSE ParentCheck(ff, dd, parent)

PrepareDirs(chk, ff, dd, parent) ==
  IF chk = "ok" /\ ~ExistsAt(ff, dd, parent) THEN MkdirP(ff, dd, parent) ELSE dd

\* _move_file: cross-device check and creation of the missing parent
WorkerPrepare(t) ==
  /\ tasks[t].pc = "prepare"
  /\ \E parent \in {ParentKey(FsKey(tasks[t].new_rel))} :
     \E chk \in {PrepareCheck(fs_files, fs_dirs, FsKey(tasks[t].old_rel), parent,
                              allow_cross_device)} :
        /\ fs_dirs' = PrepareDirs(chk, fs_files, fs_dirs, parent)
        /\ tasks' = [tasks EXCEPT ![t] =
                       IF chk = "ok" THEN [tasks[t] EXCEPT !.pc = "move"]
                       ELSE Finished(tasks[t], "skipped", chk)]
  /\ UNCHANGED fs_files
  /\ WorkerFrame

\* the result of _move_file after shutil.move behaved as kind
AfterMove(task, kind) ==
  IF kind \in {"file", "tree", "same"} THEN Finished(task, "moved", "")
  ELSE IF kind = "exists" THEN Finished(task, "skipped", "Destination exists (race condition)")
  ELSE Finished(task, "skipped", "exception")

\* _move_file: shutil.move(str(src), str(dst))
WorkerMove(t) ==
  /\ tasks[t].pc = "move"
  /\ \E src \in {FsKey(tasks[t].old_rel)} :
     \E real \in {RealDst(fs_dirs, src, FsKey(tasks[t].new_rel))} :
     \E kind \in {MoveKind(fs_files, fs_dirs, src, FsKey(tasks[t].new_rel), real)} :
        /\ fs_files' = FilesAfterMove(kind, fs_files, src, real)
        /\ fs_dirs' = DirsAfterMove(kind, fs_dirs, src, real)
        /\ tasks' = [tasks EXCEPT ![t] = AfterMove(tasks[t], kind)]
  /\ WorkerFrame

\* (mutation of Journaled: the line of the entry is broken in two by another write)
Journaled_Interleaved(undo, res) ==
  IF undo.isNone THEN undo
  ELSE Some(Append(Append(undo.v, [old_rel |-> res.new_rel]),
                   [new_rel |-> res.old_rel, reason |-> "Undo move"]))

\* undo_file_handle.write(json.dumps(undo_move) + '\n') when a handle is open
Journaled(undo, res) == IF undo.isNone THEN undo ELSE Some(Append(undo.v, UndoMove(res)))

Uncollected == {t \in DOMAIN tasks : ~tasks[t].collected}

\* "for future in as_completed(futures)": the result of a finished future is counted and,
\* when it moved, its inverse is written to the undo stream
ExecCollect(t) ==
  /\ epc = "collect"
  /\ tasks[t].pc = "finished"
  /\ ~tasks[t].collected
  /\ tasks' = [tasks EXCEPT ![t].collected = TRUE]
  /\ IF tasks[t].status = "moved"
     THEN /\ executed_moves_count' = executed_moves_count + 1
          /\ undo_file' = Journaled(undo_file, tasks[t])
          /\ UNCHANGED failed_moves_count
     ELSE /\ failed_moves_count' = failed_moves_count + 1
          /\ UNCHANGED <<executed_moves_count, undo_file>>
  /\ epc' = IF Uncollected = {t} THEN "moves" ELSE "collect"
  /\ UNCHANGED <<plan_arg, dry_run, allow_cross_device, folders_to_create, moves_source,
                 created_folders, cleaned_folders_count, undo_open, report, call, before,
                 vars_fs, vars_gen, vars_val>>

\* Step 3: cleanup_empty_dirs(root, keep_folders=set(created_folders))
ExecCleanup ==
  /\ epc = "cleanup"
  /\ \E left \in {CleanupEmptyDirs(fs_files, fs_dirs, SeqToSet(created_folders))} :
        /\ cleaned_folders_count' = Cardinality(fs_dirs \ left)
        /\ fs_dirs' = left
  /\ epc' = "report"
  /\ UNCHANGED <<plan_arg, dry_run, allow_cross_device, folders_to_create, moves_source,
                 created_folders, executed_moves_count, failed_moves_count, undo_file,
                 undo_open, tasks, report, call, before, root_exists, fs_files,
                 vars_gen, vars_val>>

\* the report is built and returned; the finally clause closes the undo file
ExecReport ==
  /\ epc = "report"
  /\ report' = Some([dry_run |-> dry_run,
                     created_folders_count |-> Len(created_folders),
                     executed_moves_count |-> executed_moves_count,
                     failed_moves_count |-> failed_moves_count,
                     cleaned_folders_count |-> cleaned_folders_count])
  /\ undo_open' = FALSE
  /\ epc' = "done"
  /\ UNCHANGED <<plan_arg, dry_run, allow_cross_device, folders_to_create, moves_source,
                 created_folders, executed_moves_count, failed_moves_count,
                 cleaned_folders_count, undo_file, tasks, call, before,
                 vars_fs, vars_gen, vars_val>>

\* KeyboardInterrupt in the calling thread while the batch is submitted or collected
ExecInterrupt ==
  /\ epc \in {"submit", "collect"}
  /\ epc' = "interrupted"
  /\ UNCHANGED <<plan_arg, dry_run, allow_cross_device, folders_to_create, moves_source,
                 created_folders, executed_moves_count, failed_moves_count,
                 cleaned_folders_count, undo_file, undo_open, tasks, report, call, before,
                 vars_fs, vars_gen, vars_val>>

\* The pool's __exit__ waits for the submitted futures; the finally clause closes the
\* undo file and the exception leaves apply_plan
ExecUnwind ==
  /\ epc = "interrupted"
  /\ \A t \in DOMAIN tasks : tasks[t].pc \in {"unsubmitted", "finished"}
  /\ undo_open' = FALSE
  /\ epc' = "aborted"
  /\ UNCHANGED <<plan_arg, dry_run, allow_cross_device, folders_to_create, moves_source,
                 created_folders, executed_moves_count, failed_moves_count,
                 cleaned_folders_count, undo_file, tasks, report, call, before,
                 vars_fs, vars_gen, vars_val>>

\* apply_plan(root, undo_file, dry_run=False): the journal of the finished run is the plan
ExecUndoCall ==
  /\ epc = "done"
  /\ call = 1
  /\ ~dry_run
  /\ call' = 2
  /\ plan_arg' = [kind |-> "path", lines |-> undo_file.v]
  /\ before' = [before EXCEPT !.journal = undo_file.v]
  /\ epc' = "start"
  /\ folders_to_create' = <<>>
  /\ moves_source' = <<>>
  /\ created_folders' = <<>>
  /\ executed_moves_count' = 0
  /\ failed_moves_count' = 0
  /\ cleaned_folders_count' = 0
  /\ undo_file' = None
  /\ tasks' = <<>>
  /\ report' = None
  /\ UNCHANGED <<dry_run, allow_cross_device, undo_open, vars_fs, vars_gen, vars_val>>

(***************************************************************************)
(* Inputs of the generator                                                 *)
(***************************************************************************)

\* Longest record stream and longest rule list explored
MaxFiles == 3
MaxRules == 2

NoCriteria ==
  [ext_in |-> None, ext_not_in |-> None, parent_name_contains_any |-> None,
   path_contains_any |-> None, min_size_bytes |-> None, max_size_bytes |-> None,
   date_start |-> None, date_end |-> None]

FileRecord(p, e, m) ==
  [rel_path |-> p, ext |-> e, size_bytes |-> 100, modified |-> m, date_taken |-> ""]

FileUniverse ==
  { FileRecord("a/f.txt", ".txt", "2023-12-25T12:00:00"),
    FileRecord("b/f.txt", ".txt", ""),
    FileRecord("c/f_1.txt", ".txt", ""),
    FileRecord("out/f_1.txt", ".TXT", "2023-12-25") }

RuleUniverse ==
  { [name |-> "Out", match |-> NoCriteria,
     target_template |-> "out/{original_name}", priority |-> 5, event_name |-> ""],
    [name |-> "Keep",
     match |-> [NoCriteria EXCEPT !.parent_name_contains_any = Some(<<"A", "out">>)],
     target_template |-> "{parent}/{original_name}", priority |-> 10, event_name |-> ""],
    [name |-> "Docs", match |-> [NoCriteria EXCEPT !.ext_in = Some(<<"TXT">>)],
     target_template |-> "out/f.txt", priority |-> 5, event_name |-> ""] }

BoundedSeq(S, n) == UNION {[1..k -> S] : k \in 0..n}

\* rule lists without repetition
RuleLists ==
  {rs \in BoundedSeq(RuleUniverse, MaxRules) :
     \A i, j \in 1..Len(rs) : i # j => rs[i] # rs[j]}

StartGen ==
  /\ files \in BoundedSeq(FileUniverse, MaxFiles)
  /\ rules \in RuleLists
  /\ gpc = "iter"
  /\ gi = 1
  /\ seen_destinations = {}
  /\ next_counters = <<>>
  /\ moves = <<>>
  /\ gen_log = <<>>
  /\ run = 1
  /\ first_moves = <<>>
  /\ coverage = None

\* Rule lists of the runs that plan a second time: one rule, and a rule followed by
\* a fallback of lower priority
ReplanRuleLists ==
  { << [name |-> "Out", match |-> NoCriteria,
        target_template |-> "out/{original_name}", priority |-> 5, event_name |-> ""] >>,
    << [name |-> "Out", match |-> NoCriteria,
        target_template |-> "out/{original_name}", priority |-> 5, event_name |-> ""],
       [name |-> "Auto-Generated: Catch-All (Everything Else)", match |-> NoCriteria,
        target_template |-> "{year} - Misc/Misc/{original_name}", priority |-> -1,
        event_name |-> "Misc"] >>,
    << [name |-> "Docs", match |-> [NoCriteria EXCEPT !.ext_in = Some(<<"TXT">>)],
        target_template |-> "out/f.txt", priority |-> 5, event_name |-> ""] >> }

StartReplan ==
  /\ files \in BoundedSeq(FileUniverse, MaxFiles)
  /\ rules \in ReplanRuleLists
  /\ gpc = "iter"
  /\ gi = 1
  /\ seen_destinations = {}
  /\ next_counters = <<>>
  /\ moves = <<>>
  /\ gen_log = <<>>
  /\ run = 1
  /\ first_moves = <<>>
  /\ coverage = None

\* Longest record stream of the runs that look at the rendered paths
MaxRender == 2

RenderFiles ==
  { FileRecord("a/e.txt", ".txt", ""),
    FileRecord("a/file.txt", ".txt", "2023-12-25"),
    FileRecord("pics/a.jpg", ".jpg", ""),
    FileRecord("x/x", "", "") }

RenderRule(template, event) ==
  [name |-> "Test Rule", match |-> NoCriteria, target_template |-> template,
   priority |-> 0, event_name |-> event]

\* Templates without the filename placeholder, ending with a slash, naming a file,
\* and producing repeated segments, next to each other and one segment apart
RenderRuleLists ==
  { <<RenderRule("Events/{type}/", "")>>,
    <<RenderRule("combined/file.txt", "")>>,
    <<RenderRule("{parent}/{original_name}", "")>>,
    <<RenderRule("{year} - Misc/Misc/{original_name}", "Misc")>>,
    <<RenderRule("Misc/{event_name}", "")>>,
    <<RenderRule("{year} - Misc/Misc/{year} - Misc/{original_name}", "")>> }

StartRender ==
  /\ files \in BoundedSeq(RenderFiles, MaxRender)
  /\ rules \in RenderRuleLists
  /\ gpc = "iter"
  /\ gi = 1
  /\ seen_destinations = {}
  /\ next_counters = <<>>
  /\ moves = <<>>
  /\ gen_log = <<>>
  /\ run = 1
  /\ first_moves = <<>>
  /\ coverage = None

\* Records with a timestamp inside and before the range of the test, with one that is
\* no date, and with none
DateFiles ==
  { FileRecord("a.jpg", ".jpg", "2023-12-25T12:00:00"),
    FileRecord("b.jpg", ".jpg", "2023-12-20T12:00:00"),
    FileRecord("c.jpg", ".jpg", "not a date"),
    FileRecord("d.jpg", ".jpg", "") }

\* Date bounds: absent, a date, and a text that is no date
DateStarts == {None, Some("2023-12-24T00:00:00"), Some("soon")}
DateEnds == {None, Some("2023-12-26T23:59:59"), Some("later")}

DateRuleLists ==
  { << [name |-> "Event",
        match |-> [NoCriteria EXCEPT !.date_start = ds, !.date_end = de],
        target_template |-> "Events/{original_name}", priority |-> 0,
        event_name |-> ""] >> : ds \in DateStarts, de \in DateEnds }

StartDates ==
  /\ files \in BoundedSeq(DateFiles, MaxRender)
  /\ rules \in DateRuleLists
  /\ gpc = "iter"
  /\ gi = 1
  /\ seen_destinations = {}
  /\ next_counters = <<>>
  /\ moves = <<>>
  /\ gen_log = <<>>
  /\ run = 1
  /\ first_moves = <<>>
  /\ coverage = None

\* Longest record stream of the runs that look at colliding destinations
MaxCollide == 4

\* Records that share a filename, and records named like a suffixed destination
CollideFiles ==
  { FileRecord("folder1/file.txt", ".txt", ""),
    FileRecord("folder2/file.txt", ".txt", ""),
    FileRecord("folder3/file_1.txt", ".txt", ""),
    FileRecord("folder4/file_1.txt", ".txt", "") }

\* Rule lists that map every record into one directory, or to the root
CollideRuleLists ==
  { << [name |-> "Test Rule", match |-> [NoCriteria EXCEPT !.ext_in = Some(<<".txt">>)],
        target_template |-> "combined/file.txt", priority |-> 10, event_name |-> ""] >>,
    << [name |-> "Root Rule", match |-> [NoCriteria EXCEPT !.ext_in = Some(<<".txt">>)],
        target_template |-> "{original_name}", priority |-> 10, event_name |-> ""] >>,
    << [name |-> "Combine", match |-> NoCriteria,
        target_template |-> "combined/{original_name}", priority |-> 10, event_name |-> ""] >> }

StartCollide ==
  /\ files \in BoundedSeq(CollideFiles, MaxCollide)
  /\ rules \in CollideRuleLists
  /\ gpc = "iter"
  /\ gi = 1
  /\ seen_destinations = {}
  /\ next_counters = <<>>
  /\ moves = <<>>
  /\ gen_log = <<>>
  /\ run = 1
  /\ first_moves = <<>>
  /\ coverage = None

\* Longest record stream of the runs that go on from a base whose suffixes are used up
MaxCeiling == 2

\* A record that renders the base and a record named like its first suffix
CeilingFiles ==
  { FileRecord("folder1/file.txt", ".txt", ""),
    FileRecord("folder3/file_1.txt", ".txt", "") }

\* The base destination of the rule "Test Rule" and of the record file.txt under "Combine"
CeilingBase == "combined/file.txt"

\* The counters whose candidates the rest of the stream can test: the one the record
\* file_1.txt renders as its own base, and those from the cached counter on
CountersInView == {1, CollisionLimit - 1, CollisionLimit}

\* seen_destinations after the base and every suffix up to the ceiling were assigned,
\* as far as the rest of the stream can test it
AllSuffixes == {CeilingBase} \cup {Candidate(CeilingBase, c) : c \in CountersInView}

\* The generator is at a point of a long stream where the base and all its suffixes are
\* assigned, or all but the last one; the counter cache of the base is two below the
\* ceiling or past it
StartCeiling ==
  /\ files \in BoundedSeq(CeilingFiles, MaxCeiling)
  /\ rules \in CollideRuleLists
  /\ gpc = "iter"
  /\ gi = 1
  /\ seen_destinations \in {AllSuffixes, AllSuffixes \ {Candidate(CeilingBase, CollisionLimit)}}
  /\ next_counters \in {(CeilingBase :> c) : c \in {CollisionLimit - 1, CollisionLimit + 1}}
  /\ (next_counters[CeilingBase] > CollisionLimit) => seen_destinations = AllSuffixes
  /\ moves = <<>>
  /\ gen_log = <<>>
  /\ run = 1
  /\ first_moves = <<>>
  /\ coverage = None

(***************************************************************************)
(* Rule coverage and catch-all rules (planning/rules.py, __main__.py)      *)
(***************************************************************************)

\* "for rule in sorted_rules: if rule.match.matches(file_info)": some rule matches
RuleMatches(rs, f) == \E i \in 1..Len(rs) : Matches(SortedRules(rs)[i].match, f)

\* validate_rule_coverage(files, rules); coverage_pct is kept as the two numbers
\* it is computed from
ValidateRuleCoverage(fs, rs) ==
  [matched |-> {NormSlashes(fs[i].rel_path) :
                  i \in {j \in 1..Len(fs) : fs[j].rel_path # "" /\ RuleMatches(rs, fs[j])}},
   unmatched |-> SelectSeq(fs, LAMBDA f : f.rel_path # "" /\ ~RuleMatches(rs, f)),
   total_files |-> Len(fs)]

\* coverage["coverage_pct"] < 100.0
Below100(c) == c.total_files = 0 \/ Cardinality(c.matched) < c.total_files

\* the key of ext_groups a record is filed under, "" for no_ext_files
GroupExt(f) ==
  IF Lower(f.ext) = "" \/ Lower(f.ext) = "/" THEN ""
  ELSE IF StartsWith(Lower(f.ext), ".") THEN Lower(f.ext) ELSE "." \o Lower(f.ext)

\* the keys of ext_groups in insertion order
RECURSIVE ExtGroups(_, _)
ExtGroups(unmatched, sofar) ==
  IF Len(unmatched) = 0 THEN sofar
  ELSE IF GroupExt(Head(unmatched)) = "" \/ InSeq(GroupExt(Head(unmatched)), sofar)
  THEN ExtGroups(Tail(unmatched), sofar)
  ELSE ExtGroups(Tail(unmatched), Append(sofar, GroupExt(Head(unmatched))))

ExtRule(ext) ==
  [name |-> "Auto-Generated: " \o Upper(SubSeq(ext, 2, Len(ext))) \o " Files",
   match |-> [NoCriteria EXCEPT !.ext_in = Some(<<ext>>)],
   target_template |-> "{year} - Misc/{type}/{original_name}", priority |-> 0,
   event_name |-> "Misc"]

FinalCatchAll ==
  [name |-> "Auto-Generated: Catch-All (Everything Else)", match |-> NoCriteria,
   target_template |-> "{year} - Misc/Misc/{original_name}", priority |-> -1,
   event_name |-> "Misc"]

\* (mutation of GenerateCatchAllRules: only the rules of the extension groups)
GenerateCatchAllRules_ExtOnly(unmatched) ==
  [i \in 1..Len(ExtGroups(unmatched, <<>>)) |-> ExtRule(ExtGroups(unmatched, <<>>)[i])]

\* generate_catch_all_rules(unmatched_files)
GenerateCatchAllRules(unmatched) ==
  IF Len(unmatched) = 0 THEN <<>>
  ELSE [i \in 1..Len(ExtGroups(unmatched, <<>>)) |-> ExtRule(ExtGroups(unmatched, <<>>)[i])]
         \o <<FinalCatchAll>>

\* run_rules_mode, "Validating rule coverage": coverage = validate_rule_coverage(...)
CoverCheck ==
  /\ gpc = "coverage"
  /\ coverage' = Some(ValidateRuleCoverage(files, rules))
  /\ gpc' = "extend"
  /\ UNCHANGED <<files, rules, gi, seen_destinations, next_counters, moves, gen_log,
                 run, first_moves, vars_fs, vars_val, vars_exec>>

\* run_rules_mode: below 100% the catch-all rules for the unmatched records are
\* appended and coverage is validated again; then the moves are generated
CoverExtend ==
  /\ gpc = "extend"
  /\ \E ca \in {IF Below100(coverage.v) THEN GenerateCatchAllRules(coverage.v.unmatched)
                 ELSE <<>>} :
        /\ rules' = rules \o ca
        /\ coverage' = IF Len(ca) > 0 THEN Some(ValidateRuleCoverage(files, rules \o ca))
                       ELSE coverage
  /\ gpc' = "iter"
  /\ UNCHANGED <<files, gi, seen_destinations, next_counters, moves, gen_log,
                 run, first_moves, vars_fs, vars_val, vars_exec>>

\* Longest record stream whose coverage is validated
MaxCover == 3

CoverFiles ==
  { FileRecord("a/f.txt", ".txt", ""),
    FileRecord("a/README", "", ""),
    FileRecord("b/p.JPG", "JPG", "2023-12-25"),
    FileRecord("", ".txt", ""),
    FileRecord("a/f.txt", ".txt", "2023-12-25") }

\* Rule lists as the oracle proposes them: none of them is empty
CoverRuleLists ==
  { << [name |-> "Docs", match |-> [NoCriteria EXCEPT !.ext_in = Some(<<"txt">>)],
        target_template |-> "Documents/{original_name}", priority |-> 5, event_name |-> ""] >>,
    << [name |-> "Holiday", match |-> [NoCriteria EXCEPT !.date_start = Some("2023-12-01")],
        target_template |-> "{year}/{event_name}/{original_name}", priority |-> -5,
        event_name |-> "Christmas"],
       [name |-> "In b", match |-> [NoCriteria EXCEPT !.path_contains_any = Some(<<"b/">>)],
        target_template |-> "B/{original_name}", priority |-> 0, event_name |-> ""] >> }

StartCover ==
  /\ files \in BoundedSeq(CoverFiles, MaxCover)
  /\ rules \in CoverRuleLists
  /\ gpc = "coverage"
  /\ gi = 1
  /\ seen_destinations = {}
  /\ next_counters = <<>>
  /\ moves = <<>>
  /\ gen_log = <<>>
  /\ run = 1
  /\ first_moves = <<>>
  /\ coverage = None

(***************************************************************************)
(* Inputs of the validator                                                 *)
(***************************************************************************)

\* Longest plan handed to the validator
MaxPlan == 2

PlanMove(o, n) == [old_rel |-> Some(o), new_rel |-> Some(n)]

\* The tree the validator looks at
\* (a key that starts with ".." names an entry of root's parent directory)
ValFiles ==
  ("a/x.mp4" :> 1) @@ ("b/x.mp4" :> 2) @@ ("VIDEO_TS/v.vob" :> 3) @@ ("P.app/c.txt" :> 4)
    @@ ("../out.mp4" :> 5)
ValDirs == {"", "a", "b", "VIDEO_TS", "P.app", "Normal"}

ValMoveUniverse ==
  { PlanMove("a/x.mp4", "Movies/x.mp4"),
    PlanMove("b/x.mp4", "Movies/x.mp4"),
    PlanMove("gone/x.mp4", "Movies/x.mp4"),
    PlanMove("a\\x.mp4", "/Movies/x.mp4/"),
    PlanMove("a/x.mp4", "a/y.mp4"),
    PlanMove("VIDEO_TS/v.vob", "Movies/v.vob"),
    PlanMove("P.app/c.txt", "Movies/x.mp4"),
    PlanMove("VIDEO_TS", "Movies/VIDEO_TS"),
    PlanMove("Normal", "Movies/VIDEO_TS"),
    PlanMove("../out.mp4", "Movies/out.mp4"),
    PlanMove("a/x.mp4", "../x.mp4"),
    PlanMove("a//x.mp4", "a/y.mp4"),
    PlanMove("a/x.mp4", "/a/x.mp4") }

StartVal ==
  /\ root_exists \in BOOLEAN
  /\ fs_files = ValFiles
  /\ fs_dirs = ValDirs
  /\ vplan \in BoundedSeq(ValMoveUniverse, MaxPlan)
  /\ vpc = "start"
  /\ vi = 1
  /\ destinations = <<>>
  /\ seen_moves = {}
  /\ warnings = <<>>
  /\ collisions = <<>>
  /\ valid_moves = <<>>
  /\ vresult = None

(***************************************************************************)
(* Inputs of the executor                                                  *)
(***************************************************************************)

\* Longest list of moves in a plan handed to apply_plan
MaxMoves == 2

\* The tree apply_plan starts from
ExecFiles == ("a/x.txt" :> 1) @@ ("b/x.txt" :> 2)
ExecDirs == {"", "a", "b"}

ExecMove(o, n, why) == [old_rel |-> o, new_rel |-> n, reason |-> why]

ExecMoveUniverse ==
  { ExecMove("b/x.txt", "c/x.txt", "first"),
    ExecMove("a/x.txt", "b/x.txt", "chained"),
    ExecMove("a/x.txt", "c/x.txt", "same destination"),
    ExecMove("gone.txt", "c/g.txt", "missing source") }

ExecFolderLists == { <<>>, <<"n", "c">>, <<"a/x.txt/d">> }

ExecPlans ==
  { [kind |-> "dict", moves |-> ms, folders_to_create |-> fl] :
      ms \in BoundedSeq(ExecMoveUniverse, MaxMoves), fl \in ExecFolderLists }

StartExec ==
  /\ root_exists \in BOOLEAN
  /\ fs_files = ExecFiles
  /\ fs_dirs = ExecDirs
  /\ plan_arg \in ExecPlans
  /\ dry_run \in BOOLEAN
  /\ allow_cross_device = FALSE
  /\ epc = "start"
  /\ folders_to_create = <<>>
  /\ moves_source = <<>>
  /\ created_folders = <<>>
  /\ executed_moves_count = 0
  /\ failed_moves_count = 0
  /\ cleaned_folders_count = 0
  /\ undo_file = None
  /\ undo_open = FALSE
  /\ tasks = <<>>
  /\ report = None
  /\ call = 1
  /\ before = [files |-> ExecFiles, dirs |-> ExecDirs, journal |-> <<>>]

(***************************************************************************)
(* Inputs of the executor: trees with empty directories and bundles        *)
(***************************************************************************)

\* Longest list of moves in a plan run on these trees
MaxTidyMoves == 1

\* Directories that may be in the tree besides a and b, each with its parent
TidyExtraDirs == {"e", "e/i", "P.dspproj", "P.dspproj/Contents", "VIDEO_TS"}

TidyTrees ==
  {ExecDirs \cup x : x \in {y \in SUBSET TidyExtraDirs : \A d \in y : ParentKey(d) \in y \cup {""}}}

TidyMoveUniverse ==
  { ExecMove("a/x.txt", "e/x.txt", "into a directory that may be empty"),
    ExecMove("a/x.txt", "c/d/x.txt", "new parents"),
    ExecMove("gone.txt", "c/g.txt", "missing source") }

TidyFolderLists == { <<>>, <<"n", "e/i">>, <<"P.dspproj/New">> }

TidyPlans ==
  { [kind |-> "dict", moves |-> ms, folders_to_create |-> fl] :
      ms \in BoundedSeq(TidyMoveUniverse, MaxTidyMoves), fl \in TidyFolderLists }

StartTidy ==
  /\ root_exists = TRUE
  /\ fs_files = ExecFiles
  /\ fs_dirs \in TidyTrees
  /\ plan_arg \in TidyPlans
  /\ dry_run \in BOOLEAN
  /\ allow_cross_device = FALSE
  /\ epc = "start"
  /\ folders_to_create = <<>>
  /\ moves_source = <<>>
  /\ created_folders = <<>>
  /\ executed_moves_count = 0
  /\ failed_moves_count = 0
  /\ cleaned_folders_count = 0
  /\ undo_file = None
  /\ undo_open = FALSE
  /\ tasks = <<>>
  /\ report = None
  /\ call = 1
  /\ before = [files |-> fs_files, dirs |-> fs_dirs, journal |-> <<>>]

(***************************************************************************)
(* Inputs of the executor: a second device mounted below root              *)
(***************************************************************************)

\* The tree with another device mounted at mnt
DeviceFiles == ExecFiles @@ ("mnt/y.txt" :> 3)
DeviceDirs == ExecDirs \cup MountPoints

DeviceMoveUniverse ==
  { ExecMove("mnt/y.txt", "c/y.txt", "source on the other device"),
    ExecMove("a/x.txt", "mnt/new/x.txt", "destination on the other device"),
    ExecMove("a/x.txt", "c/x.txt", "same device"),
    ExecMove("b/x.txt", "c/x.txt", "same device") }

DevicePlans ==
  { [kind |-> "dict", moves |-> ms, folders_to_create |-> <<>>] :
      ms \in BoundedSeq(DeviceMoveUniverse, MaxMoves) }

StartDevice ==
  /\ root_exists = TRUE
  /\ fs_files = DeviceFiles
  /\ fs_dirs = DeviceDirs
  /\ plan_arg \in DevicePlans
  /\ dry_run \in BOOLEAN
  /\ allow_cross_device \in BOOLEAN
  /\ epc = "start"
  /\ folders_to_create = <<>>
  /\ moves_source = <<>>
  /\ created_folders = <<>>
  /\ executed_moves_count = 0
  /\ failed_moves_count = 0
  /\ cleaned_folders_count = 0
  /\ undo_file = None
  /\ undo_open = FALSE
  /\ tasks = <<>>
  /\ report = None
  /\ call = 1
  /\ before = [files |-> DeviceFiles, dirs |-> DeviceDirs, journal |-> <<>>]

(***************************************************************************)
(* Specifications                                                          *)
(***************************************************************************)

\* No tree is looked at
IdleFs ==
  /\ root_exists = TRUE
  /\ fs_files = <<>>
  /\ fs_dirs = {""}

\* The generator is not running
IdleGen ==
  /\ files = <<>>
  /\ rules = <<>>
  /\ gpc = "idle"
  /\ gi = 1
  /\ seen_destinations = {}
  /\ next_counters = <<>>
  /\ moves = <<>>
  /\ gen_log = <<>>
  /\ run = 1
  /\ first_moves = <<>>
  /\ coverage = None

\* The validator is not running
IdleVal ==
  /\ vplan = <<>>
  /\ vpc = "idle"
  /\ vi = 1
  /\ destinations = <<>>
  /\ seen_moves = {}
  /\ warnings = <<>>
  /\ collisions = <<>>
  /\ valid_moves = <<>>
  /\ vresult = None

\* The executor is not running
IdleExec ==
  /\ plan_arg = [kind |-> "dict", moves |-> <<>>, folders_to_create |-> <<>>]
  /\ dry_run = TRUE
  /\ allow_cross_device = FALSE
  /\ epc = "idle"
  /\ folders_to_create = <<>>
  /\ moves_source = <<>>
  /\ created_folders = <<>>
  /\ executed_moves_count = 0
  /\ failed_moves_count = 0
  /\ cleaned_folders_count = 0
  /\ undo_file = None
  /\ undo_open = FALSE
  /\ tasks = <<>>
  /\ report = None
  /\ call = 1
  /\ before = [files |-> <<>>, dirs |-> {""}, journal |-> <<>>]

InitGen == StartGen /\ IdleFs /\ IdleVal /\ IdleExec

NextGen == GenStep \/ GenFinish \/ GenCallAgain

SpecGen == InitGen /\ [][NextGen]_vars

NextCover == CoverCheck \/ CoverExtend \/ GenStep \/ GenFinish

\* Records an oracle rule matches, one of them already where the rule puts it, and a
\* record no oracle rule matches
MergeFiles ==
  { FileRecord("a/f.txt", ".txt", ""),
    FileRecord("Documents/f.txt", ".txt", ""),
    FileRecord("a/README", "", "") }

\* One oracle rule, with a priority above or below those of the catch-all rules
MergeRuleLists ==
  { << [name |-> "Docs", match |-> [NoCriteria EXCEPT !.ext_in = Some(<<"txt">>)],
        target_template |-> "Documents/{original_name}", priority |-> prio,
        event_name |-> ""] >> : prio \in {5, -5} }

StartMerge ==
  /\ files \in BoundedSeq(MergeFiles, MaxCover)
  /\ rules \in MergeRuleLists
  /\ gpc = "coverage"
  /\ gi = 1
  /\ seen_destinations = {}
  /\ next_counters = <<>>
  /\ moves = <<>>
  /\ gen_log = <<>>
  /\ run = 1
  /\ first_moves = <<>>
  /\ coverage = None

InitMerge == StartMerge /\ IdleFs /\ IdleVal /\ IdleExec

SpecMerge == InitMerge /\ [][NextCover]_vars

\* run_rules_mode from the coverage check on: coverage, catch-all rules, moves
InitCover == StartCover /\ IdleFs /\ IdleVal /\ IdleExec

SpecCover == InitCover /\ [][NextCover]_vars

\* The generator goes on from a point where the suffixes of a base are used up
InitCeiling == StartCeiling /\ IdleFs /\ IdleVal /\ IdleExec

NextCeiling == GenStep \/ GenFinish

SpecCeiling == InitCeiling /\ [][NextCeiling]_vars

NextRender == GenStep \/ GenFinish

\* One call of the generator with a rule that has date bounds
InitDates == StartDates /\ IdleFs /\ IdleVal /\ IdleExec

SpecDates == InitDates /\ [][NextRender]_vars

\* One call of the generator with templates of several shapes
InitRender == StartRender /\ IdleFs /\ IdleVal /\ IdleExec

SpecRender == InitRender /\ [][NextRender]_vars

\* A plan is generated, the records are relocated by it, and a plan is generated again
InitReplan == StartReplan /\ IdleFs /\ IdleVal /\ IdleExec

NextReplan == GenStep \/ GenFinish \/ GenRelocate

SpecReplan == InitReplan /\ [][NextReplan]_vars

\* One call of the generator on records with colliding destinations
InitCollide == StartCollide /\ IdleFs /\ IdleVal /\ IdleExec

NextCollide == GenStep \/ GenFinish

SpecCollide == InitCollide /\ [][NextCollide]_vars

InitVal == StartVal /\ IdleGen /\ IdleExec

NextVal == ValStart \/ ValStep \/ ValFinish

SpecVal == InitVal /\ [][NextVal]_vars

InitExec == StartExec /\ IdleGen /\ IdleVal

NextExec ==
  \/ ExecStart
  \/ ExecCreateFolders
  \/ ExecDryCount
  \/ ExecNextBatch
  \/ ExecSubmit
  \/ \E t \in DOMAIN tasks : WorkerCheckDst(t)
  \/ \E t \in DOMAIN tasks : WorkerCheckSrc(t)
  \/ \E t \in DOMAIN tasks : WorkerPrepare(t)
  \/ \E t \in DOMAIN tasks : WorkerMove(t)
  \/ \E t \in DOMAIN tasks : ExecCollect(t)
  \/ ExecCleanup
  \/ ExecReport
  \/ ExecInterrupt
  \/ ExecUnwind

SpecExec == InitExec /\ [][NextExec]_vars

\* apply_plan on trees with empty directories and bundles
InitTidy == StartTidy /\ IdleGen /\ IdleVal

SpecTidy == InitTidy /\ [][NextExec]_vars

\* apply_plan on a tree that spans two devices
InitDevice == StartDevice /\ IdleGen /\ IdleVal

SpecDevice == InitDevice /\ [][NextExec]_vars

\* validate_plan and apply_plan called on the same root with the same plan
AsValPlan(ms) == [i \in 1..Len(ms) |-> PlanMove(ms[i].old_rel, ms[i].new_rel)]

StartValOnExecPlan ==
  /\ vplan = AsValPlan(plan_arg.moves)
  /\ vpc = "start"
  /\ vi = 1
  /\ destinations = <<>>
  /\ seen_moves = {}
  /\ warnings = <<>>
  /\ collisions = <<>>
  /\ valid_moves = <<>>
  /\ vresult = None

InitBoth == StartExec /\ StartValOnExecPlan /\ IdleGen

NextBoth == NextVal \/ NextExec

SpecBoth == InitBoth /\ [][NextBoth]_vars

\* A run, then a run on the journal that run wrote
NextRoundTrip == NextExec \/ ExecUndoCall

\* Moves whose destination parent is to be made, is a file, or is moved by another move
ParentMoveUniverse ==
  { ExecMove("a/x.txt", "c/d/x.txt", "parent to make"),
    ExecMove("b/x.txt", "a/x.txt/y.txt", "parent is a file"),
    ExecMove("b", "z/b", "folder"),
    ExecMove("a/x.txt", "b/y.txt", "into the folder") }

ParentPlans ==
  { [kind |-> "dict", moves |-> ms, folders_to_create |-> <<>>] :
      ms \in BoundedSeq(ParentMoveUniverse, MaxMoves) }

StartParent ==
  /\ root_exists = TRUE
  /\ fs_files = ExecFiles
  /\ fs_dirs = ExecDirs
  /\ plan_arg \in ParentPlans
  /\ dry_run \in BOOLEAN
  /\ allow_cross_device = FALSE
  /\ epc = "start"
  /\ folders_to_create = <<>>
  /\ moves_source = <<>>
  /\ created_folders = <<>>
  /\ executed_moves_count = 0
  /\ failed_moves_count = 0
  /\ cleaned_folders_count = 0
  /\ undo_file = None
  /\ undo_open = FALSE
  /\ tasks = <<>>
  /\ report = None
  /\ call = 1
  /\ before = [files |-> ExecFiles, dirs |-> ExecDirs, journal |-> <<>>]

InitParent == StartParent /\ IdleGen /\ IdleVal

SpecParent == InitParent /\ [][NextExec]_vars

(***************************************************************************)
(* The commands apply and run                                              *)
(***************************************************************************)

\* what a step of a command leaves alone besides its position, the plan and the validator
CmdFrame ==
  UNCHANGED <<dry_run, allow_cross_device, folders_to_create, moves_source, created_folders,
              executed_moves_count, failed_moves_count, cleaned_folders_count, undo_file,
              undo_open, tasks, report, call, before, vars_fs, vars_gen>>

\* cmd_apply, plan file holding one JSON document: validate_plan(root, plan) is called
CmdApplyValidate ==
  /\ epc = "cmd_apply"
  /\ plan_arg.kind = "dict"
  /\ vplan' = AsValPlan(plan_arg.moves)
  /\ vpc' = "start"
  /\ epc' = "validating"
  /\ UNCHANGED <<plan_arg, vi, destinations, seen_moves, warnings, collisions, valid_moves,
                 vresult>>
  /\ CmdFrame

\* cmd_apply: apply_plan is called on the folders of the plan and the moves returned
CmdApplyValidated ==
  /\ epc = "validating"
  /\ vpc = "returned"
  /\ plan_arg' = [kind |-> "dict", moves |-> vresult.v,
                  folders_to_create |-> plan_arg.folders_to_create]
  /\ epc' = "start"
  /\ UNCHANGED vars_val
  /\ CmdFrame

\* cmd_apply: "Validation failed", return 1
CmdApplyRejected ==
  /\ epc = "validating"
  /\ vpc = "raised"
  /\ epc' = "rejected"
  /\ UNCHANGED <<plan_arg, vars_val>>
  /\ CmdFrame

\* cmd_apply, plan file of JSON lines: "Skipping upfront validation for streaming plan",
\* apply_plan is called on the path
CmdApplyStream ==
  /\ epc = "cmd_apply"
  /\ plan_arg.kind = "path"
  /\ epc' = "start"
  /\ UNCHANGED <<plan_arg, vars_val>>
  /\ CmdFrame

\* cmd_run, steps 3 and 4: apply_plan is called on the path of the plan
CmdRun ==
  /\ epc = "cmd_run"
  /\ epc' = "start"
  /\ UNCHANGED <<plan_arg, vars_val>>
  /\ CmdFrame

\* the header run_rules_mode writes before the moves
PlanHeader == [type |-> "plan_header", folders_to_create |-> <<>>]

\* Plan files: one JSON document, or a header line followed by one line per move
CmdPlans ==
  { [kind |-> "dict", moves |-> ms, folders_to_create |-> <<>>] :
      ms \in BoundedSeq(ExecMoveUniverse, MaxMoves) }
  \cup { [kind |-> "path", lines |-> <<PlanHeader>> \o ms] :
           ms \in BoundedSeq(ExecMoveUniverse, MaxMoves) }

\* A command has loaded its arguments and found the root directory
StartCmd ==
  /\ root_exists = TRUE
  /\ fs_files = ExecFiles
  /\ fs_dirs = ExecDirs
  /\ plan_arg \in CmdPlans
  /\ epc \in {"cmd_apply", "cmd_run"}
  /\ epc = "cmd_run" => plan_arg.kind = "path"
  /\ dry_run \in BOOLEAN
  /\ allow_cross_device = FALSE
  /\ folders_to_create = <<>>
  /\ moves_source = <<>>
  /\ created_folders = <<>>
  /\ executed_moves_count = 0
  /\ failed_moves_count = 0
  /\ cleaned_folders_count = 0
  /\ undo_file = None
  /\ undo_open = FALSE
  /\ tasks = <<>>
  /\ report = None
  /\ call = 1
  /\ before = [files |-> ExecFiles, dirs |-> ExecDirs, journal |-> <<>>]

InitCmd == StartCmd /\ IdleVal /\ IdleGen

NextCmd ==
  \/ CmdApplyValidate
  \/ CmdApplyValidated
  \/ CmdApplyRejected
  \/ CmdApplyStream
  \/ CmdRun
  \/ ValStart
  \/ ValStep
  \/ ValFinish
  \/ NextExec

SpecCmd == InitCmd /\ [][NextCmd]_vars

(***************************************************************************)
(* Inputs of the executor: plans with entries that are not moves           *)
(***************************************************************************)

\* Longest list of entries in such a plan
MaxEntries == 3

\* Plan entries: two moves, and two objects that lack one of the two fields
EntryUniverse ==
  { ExecMove("a/x.txt", "c/x.txt", "moves"),
    ExecMove("gone.txt", "c/g.txt", "missing source"),
    [old_rel |-> "b/x.txt", reason |-> "no destination"],
    [new_rel |-> "c/y.txt", reason |-> "no source"] }

\* One JSON document, or a file of lines with or without the header
EntryPlans ==
  { [kind |-> "dict", moves |-> ms, folders_to_create |-> <<>>] :
      ms \in BoundedSeq(EntryUniverse, MaxEntries) }
  \cup { [kind |-> "path", lines |-> hd \o ms] :
           hd \in {<<>>, <<PlanHeader>>}, ms \in BoundedSeq(EntryUniverse, MaxEntries) }

StartEntries ==
  /\ root_exists = TRUE
  /\ fs_files = ExecFiles
  /\ fs_dirs = ExecDirs
  /\ plan_arg \in EntryPlans
  /\ dry_run \in BOOLEAN
  /\ allow_cross_device = FALSE
  /\ epc = "start"
  /\ folders_to_create = <<>>
  /\ moves_source = <<>>
  /\ created_folders = <<>>
  /\ executed_moves_count = 0
  /\ failed_moves_count = 0
  /\ cleaned_folders_count = 0
  /\ undo_file = None
  /\ undo_open = FALSE
  /\ tasks = <<>>
  /\ report = None
  /\ call = 1
  /\ before = [files |-> ExecFiles, dirs |-> ExecDirs, journal |-> <<>>]

InitEntries == StartEntries /\ IdleGen /\ IdleVal

SpecEntries == InitEntries /\ [][NextExec]_vars

SpecRoundTrip == InitExec /\ [][NextRoundTrip]_vars

(***************************************************************************)
(* Properties of the plan generator                                        *)
(***************************************************************************)

\* C1: the new_rel values of all moves yielded by generate_moves_from_rules are
\* pairwise distinct.
C1_DistinctDestinations ==
  \A i, j \in 1..Len(moves) : i # j => moves[i].new_rel # moves[j].new_rel

\* A record got a suffixed destination, and a later record whose rule rendered
\* exactly that suffixed path had to be given a suffix too.
C1_Witness ==
  \E i, j \in 1..Len(gen_log) :
     /\ i < j
     /\ gen_log[i].counter >= 1
     /\ gen_log[j].counter >= 1
     /\ gen_log[j].base = moves[gen_log[i].idx].new_rel

\* the first rule from i on (in priority order) whose criteria match f, 0 if none
RECURSIVE FirstMatch(_, _, _)
FirstMatch(f, rs, i) ==
  IF i > Len(rs) THEN 0
  ELSE IF Matches(rs[i].match, f) THEN i
  ELSE FirstMatch(f, rs, i + 1)

\* what first-match-wins asks of the outcome e for record f whose first matching
\* rule is number fm
FirstMatchDecides(f, rs, fm, e) ==
  IF fm = 0 THEN ~e.yielded
  ELSE IF NormSlashes(RenderTarget(rs[fm], f)) = NormSlashes(f.rel_path) THEN ~e.yielded
  ELSE e.yielded => e.rule = fm

\* C7: for every record, the move emitted (if any) comes from the first rule, in
\* descending priority with ties broken by input order, whose criteria match the
\* record; if that rule renders the record's own path, no move is emitted for the
\* record and no lower-priority rule is applied to it.
C7_FirstMatchWins ==
  \A n \in 1..Len(gen_log) :
     files[n].rel_path # "" =>
       FirstMatchDecides(files[n], SortedRules(rules),
                         FirstMatch(files[n], SortedRules(rules), 1), gen_log[n])

C9_NoSelfMove == \A i \in 1..Len(moves) : moves[i].old_rel # moves[i].new_rel

\* A record whose own path is the first suffixed candidate of an assigned
\* destination was itself sent to a suffixed destination.
C9_Witness ==
  \E n \in 1..Len(gen_log) : \E m \in 1..Len(moves) :
     /\ gen_log[n].counter >= 1
     /\ moves[gen_log[n].idx].old_rel = Candidate(moves[m].new_rel, 1)

\* the suffix k given for base as move number idx is the smallest one not assigned
\* to an earlier move
SmallestFree(base, k, idx) ==
  /\ moves[idx].new_rel = Candidate(base, k)
  /\ \A m \in 1..(idx - 1) : moves[m].new_rel # Candidate(base, k)
  /\ \A c \in 1..(k - 1) : \E m \in 1..(idx - 1) : moves[m].new_rel = Candidate(base, c)

\* C10: when a record's rendered destination is already assigned, the suffix k it
\* receives is the smallest k >= 1 such that the suffixed path is not an
\* already-assigned destination.
C10_SmallestSuffix ==
  \A n \in 1..Len(gen_log) :
     gen_log[n].counter >= 1 =>
       SmallestFree(gen_log[n].base, gen_log[n].counter, gen_log[n].idx)

\* A base collided twice, so the second search started at the cached counter.
C10_Witness ==
  \E i, j \in 1..Len(gen_log) :
     /\ i < j
     /\ gen_log[i].counter = 1
     /\ gen_log[j].base = gen_log[i].base
     /\ gen_log[j].counter = 2


(***************************************************************************)
(* Properties of the plan validator                                        *)
(***************************************************************************)

VOld(k) == NormRel(vplan[k].old_rel)
VNew(k) == NormRel(vplan[k].new_rel)

\* Move k of the plan is no no-op and passes every check made on a move alone
AcceptedAlone(k) == VOld(k) # VNew(k) /\ MoveCheck(fs_files, fs_dirs, VOld(k), VNew(k)) = "ok"

\* Two moves of the plan have distinct sources and the same normalized destination
SameDestination(i, j) == VOld(i) # VOld(j) /\ VNew(i) = VNew(j)

CollidingAccepted ==
  \E i \in 1..Len(vplan) : \E j \in 1..Len(vplan) :
     AcceptedAlone(i) /\ AcceptedAlone(j) /\ SameDestination(i, j)

\* C2 (as stated): validate_plan raises, returning no move list, whenever the plan
\* contains two moves with distinct sources whose normalized destinations are equal.
C2_AnySharedDestinationRaises ==
  vpc = "returned" =>
     ~(\E i \in 1..Len(vplan) : \E j \in 1..Len(vplan) : SameDestination(i, j))

\* C2 (amended): validate_plan raises, returning no move list, whenever the plan
\* contains two moves with distinct sources and equal normalized destinations that
\* each pass the checks made on a move alone (not a no-op, not a rename, not inside
\* a bundle, source present and a file or a bundle directory); no subset is returned.
C2_CollisionRaises ==
  (vpc \in {"returned", "raised"} /\ CollidingAccepted) => (vpc = "raised" /\ vresult.isNone)

\* A call raised on a collision after it had already accepted a move
C2_Witness == vpc = "raised" /\ CollidingAccepted /\ Len(valid_moves) > 0 /\ vresult.isNone

\* A proper-ancestor segment of the path is a known bundle folder or has a bundle extension
AncestorIsBundle(parts) ==
  \E i \in 1..(Len(parts) - 1) : IsKnownBundleFolder(parts[i]) \/ IsMacosBundle(parts[i])

InsideBundle(rel) == AncestorIsBundle(Split(rel))

\* C6: no move returned by validate_plan has a source or a destination with a
\* proper-ancestor segment that is a recognized atomic bundle (a known bundle folder
\* name or a name with a bundle extension).
C6_NoMoveInsideBundle ==
  vpc = "returned" =>
     \A k \in 1..Len(vresult.v) :
        ~InsideBundle(vresult.v[k].old_rel) /\ ~InsideBundle(vresult.v[k].new_rel)


(***************************************************************************)
(* Properties of the executor                                              *)
(***************************************************************************)

\* The paths that were files before the first run and are the target of an inverse
\* move in its journal: the original paths of the files the first run moved
MovedInFirstRun ==
  {q \in DOMAIN before.files :
     \E k \in 1..Len(before.journal) :
        IsMoveItem(before.journal[k]) /\ FsKey(before.journal[k].new_rel) = q}

\* C3: after a plan was applied (non-dry-run) and the undo journal of that run was
\* applied as a plan against the same root, every file the first run moved is back
\* at its original relative path, whatever the interleaving of the workers.
C3_RoundTrip ==
  (call = 2 /\ epc = "done") =>
     \A q \in MovedInFirstRun : IsFileAt(fs_files, q) /\ fs_files[q] = before.files[q]

\* C4: a dry run of apply_plan mutates nothing on any path through the call: no
\* directory is created or removed, no file is moved, no undo journal file is
\* created, and the count reported is the number of moves of the plan.
C4_DryRunMutatesNothing ==
  (dry_run /\ epc # "idle") =>
     /\ fs_files = before.files
     /\ fs_dirs = before.dirs
     /\ undo_file.isNone
     /\ ~undo_open
     /\ cleaned_folders_count = 0
     /\ failed_moves_count = 0
     /\ epc = "done" => report.v.executed_moves_count = Len(ValidMovesFilter(plan_arg.moves))

\* A dry run returned after it listed a missing folder and counted a move
C4_Witness ==
  /\ dry_run
  /\ epc = "done"
  /\ Len(created_folders) > 0
  /\ report.v.executed_moves_count > 0

\* The inverse of the move of future t is a line of the undo journal
InverseRecorded(t) ==
  /\ ~undo_file.isNone
  /\ \E k \in 1..Len(undo_file.v) : undo_file.v[k] = UndoMove(tasks[t])

\* C5: at every point of a non-dry run, every move that has completed on the
\* filesystem has its inverse (new_rel -> old_rel) recorded in the undo journal.
C5_CompletedMovesJournaled ==
  (~dry_run /\ epc # "idle") =>
     \A t \in DOMAIN tasks : tasks[t].status = "moved" => InverseRecorded(t)


(***************************************************************************)
(* Properties of collision suffixes                                        *)
(***************************************************************************)

\* the text of a path up to its last "/" (exclusive), and after it
DirText(path) == SubSeq(path, 1, RFind(path, "/") - 1)
NameText(path) == SubSeq(path, RFind(path, "/") + 1, Len(path))

\* the index of the dot that starts the extension of a filename, 0 when it has none
ExtDot(name) == IF 1 < RFind(name, ".") /\ RFind(name, ".") < Len(name) THEN RFind(name, ".") ELSE 0

\* the filename with "_<k>" put at the end of its stem, in front of its extension
Suffixed(name, k) ==
  IF ExtDot(name) = 0 THEN name \o "_" \o IntToStr(k)
  ELSE SubSeq(name, 1, ExtDot(name) - 1) \o "_" \o IntToStr(k)
       \o SubSeq(name, ExtDot(name), Len(name))

\* dest is base with "_<k>" appended to the filename stem only: same directory, same extension
SuffixOnStem(base, k, dest) ==
  /\ DirText(dest) = DirText(base)
  /\ NameText(dest) = Suffixed(NameText(base), k)
  /\ ~StartsWith(dest, "./")

\* log entry n yielded a move for a base that no earlier yielded entry rendered
FirstOfBase(n) ==
  /\ gen_log[n].yielded
  /\ \A m \in 1..(n - 1) : gen_log[m].yielded => gen_log[m].base # gen_log[n].base

\* a later log entry yielded a move for the same base
HasLaterOfBase(n) ==
  \E m \in (n + 1)..Len(gen_log) : gen_log[m].yielded /\ gen_log[m].base = gen_log[n].base

\* C11 (as stated): when several records render to the same base destination, the
\* first keeps the base path unchanged and each later one gets the same parent
\* directory and extension with "_<k>" appended to the filename stem only.
C11_FirstKeepsBase ==
  \A n \in 1..Len(gen_log) :
     /\ (FirstOfBase(n) /\ HasLaterOfBase(n)) => moves[gen_log[n].idx].new_rel = gen_log[n].base
     /\ (gen_log[n].yielded /\ ~FirstOfBase(n)) =>
           SuffixOnStem(gen_log[n].base, gen_log[n].counter, moves[gen_log[n].idx].new_rel)

\* the destinations assigned before move number idx
AssignedBefore(idx) == {moves[m].new_rel : m \in 1..(idx - 1)}

\* C11 (amended): a record whose rendered base destination is not assigned yet keeps
\* the base path unchanged; a record whose base is already assigned, be it to an
\* earlier record of that base or as the suffixed destination of another base, gets
\* the same parent directory and extension with "_<k>", k >= 1, appended to the
\* filename stem only, and no "./" prefix at the root.
C11_SuffixOnStem ==
  \A n \in 1..Len(gen_log) :
     gen_log[n].yielded =>
        IF gen_log[n].base \in AssignedBefore(gen_log[n].idx)
        THEN /\ gen_log[n].counter >= 1
             /\ SuffixOnStem(gen_log[n].base, gen_log[n].counter, moves[gen_log[n].idx].new_rel)
        ELSE moves[gen_log[n].idx].new_rel = gen_log[n].base

\* Two records collided at the root and two in a directory: the second of each got "_1"
C11_Witness ==
  /\ gpc = "done"
  /\ \E n \in 1..Len(gen_log) :
        /\ gen_log[n].yielded
        /\ gen_log[n].counter = 1
        /\ moves[gen_log[n].idx].new_rel \in {"file_1.txt", "combined/file_1.txt"}


(***************************************************************************)
(* Properties of the root check                                            *)
(***************************************************************************)

\* C12: if the root does not exist, apply_plan and validate_plan each end in a fatal
\* error before any mutation: no folder is created, no move is attempted, no cleanup
\* runs, no undo journal file is created and no report or move list is returned.
C12_MissingRootIsFatal ==
  /\ ~root_exists =>
       /\ epc \in {"start", "fatal"}
       /\ vpc \in {"start", "fatal"}
       /\ fs_files = before.files
       /\ fs_dirs = before.dirs
       /\ undo_file.isNone /\ ~undo_open
       /\ tasks = <<>> /\ created_folders = <<>>
       /\ report.isNone
       /\ vresult.isNone /\ valid_moves = <<>>
  /\ root_exists => (epc # "fatal" /\ vpc # "fatal")

\* Both calls ended fatally on a plan with folders to create and moves to make
C12_Witness ==
  /\ ~root_exists
  /\ epc = "fatal"
  /\ vpc = "fatal"
  /\ ~dry_run
  /\ Len(plan_arg.moves) > 0
  /\ Len(plan_arg.folders_to_create) > 0


(***************************************************************************)
(* Soft failures of single moves                                           *)
(***************************************************************************)

SoftErrors == {"Source not found", "Destination exists"}

TasksWith(status) == {t \in DOMAIN tasks : tasks[t].status = status}

\* the state part: results, counts and completion of a non-dry run
SoftFailuresCounted ==
  /\ \A t \in DOMAIN tasks :
        (tasks[t].pc = "finished" /\ tasks[t].error \in SoftErrors)
          => tasks[t].status = "skipped"
  /\ (epc = "done" /\ ~dry_run) =>
        /\ Len(tasks) = Len(ValidMovesFilter(PlanMoves(plan_arg)))
        /\ \A t \in DOMAIN tasks : tasks[t].pc = "finished" /\ tasks[t].collected
        /\ failed_moves_count = Cardinality(TasksWith("skipped"))
        /\ executed_moves_count = Cardinality(TasksWith("moved"))
        /\ report.v.failed_moves_count = failed_moves_count
  /\ epc \in {"raised", "fatal"} => tasks = <<>>

\* the step part: a move that finds its destination present, or its source absent,
\* ends there as skipped and the tree is as it was
SoftFailureStep ==
  \A t \in DOMAIN tasks :
    t \in DOMAIN tasks' =>
      /\ ( /\ tasks[t].pc = "check_dst" /\ tasks'[t].pc # "check_dst"
           /\ ExistsAt(fs_files, fs_dirs, FsKey(tasks[t].new_rel)) )
         => /\ tasks'[t].pc = "finished" /\ tasks'[t].status = "skipped"
            /\ tasks'[t].error = "Destination exists"
            /\ fs_files' = fs_files /\ fs_dirs' = fs_dirs
      /\ ( /\ tasks[t].pc = "check_src" /\ tasks'[t].pc # "check_src"
           /\ ~ExistsAt(fs_files, fs_dirs, FsKey(tasks[t].old_rel)) )
         => /\ tasks'[t].pc = "finished" /\ tasks'[t].status = "skipped"
            /\ tasks'[t].error = "Source not found"
            /\ fs_files' = fs_files /\ fs_dirs' = fs_dirs

\* C13: per-move failures are soft. In a non-dry run a move that finds its source
\* missing or its destination present is not executed, is counted as failed and not
\* as executed, leaves both paths unchanged, does not raise out of apply_plan, and
\* the remaining moves of the plan are still attempted.
C13_SoftFailures == []SoftFailuresCounted /\ [][SoftFailureStep]_vars

\* A run completed in which a move was skipped for one of the two reasons and a
\* move later in the plan was made.
C13_Witness ==
  /\ epc = "done" /\ ~dry_run
  /\ \E i, j \in DOMAIN tasks :
        /\ i < j
        /\ tasks[i].error \in SoftErrors
        /\ tasks[j].status = "moved"
  /\ failed_moves_count >= 1 /\ executed_moves_count >= 1
  /\ \E i \in DOMAIN tasks : tasks[i].error = "Destination exists"


(***************************************************************************)
(* Sources of the moves validate_plan returns                              *)
(***************************************************************************)

\* root / rel stays inside root: no ".." segment climbs above root
RECURSIVE StaysInside(_, _)
StaysInside(segs, depth) ==
  IF Len(segs) = 0 THEN TRUE
  ELSE IF Head(segs) = ".." THEN depth > 0 /\ StaysInside(Tail(segs), depth - 1)
  ELSE StaysInside(Tail(segs), depth + 1)

InsideRoot(rel) == StaysInside(PathSegs(rel), 0)

Returned == IF vresult.isNone THEN <<>> ELSE vresult.v

\* the source is on disk and is a regular file or a directory named as a bundle
SourceIsFileOrBundle(old_rel) ==
  /\ ExistsAt(fs_files, fs_dirs, FsKey(old_rel))
  /\ \/ IsFileAt(fs_files, FsKey(old_rel))
     \/ /\ IsDirAt(fs_dirs, FsKey(old_rel))
        /\ \/ IsKnownBundleFolder(PathName(FsKey(old_rel)))
           \/ IsMacosBundle(PathName(FsKey(old_rel)))

ReturnedSourcesAreFilesOrBundles ==
  \A i \in 1..Len(Returned) : SourceIsFileOrBundle(Returned[i].old_rel)

\* C14: every move returned by validate_plan has a source that exists under root
\* and is a regular file or a directory whose own name is a recognized bundle.
C14_ReturnedSourceUnderRoot ==
  /\ ReturnedSourcesAreFilesOrBundles
  /\ \A i \in 1..Len(Returned) : InsideRoot(Returned[i].old_rel)


\* C15: no move returned by validate_plan is a pure rename: the parent directory of
\* old_rel differs from the parent directory of new_rel.
C15_NoPureRename ==
  \A i \in 1..Len(Returned) :
     ParentKey(FsKey(Returned[i].old_rel)) # ParentKey(FsKey(Returned[i].new_rel))


\* forward slashes only, no leading or trailing slash (hence not absolute)
SlashNormal(rel) ==
  /\ ~Contains(rel, "\\")
  /\ ~StartsWith(rel, "/")
  /\ ~EndsWith(rel, "/")

NoTraversal(rel) == ~InSeq("..", Split(rel))

\* C16: old_rel and new_rel of every move returned by validate_plan are normalized
\* relative paths: forward slashes only, no leading or trailing slash, not absolute,
\* and no parent-traversal ('..') segment.
C16_ReturnedPathsNormalized ==
  \A i \in 1..Len(Returned) :
     /\ SlashNormal(Returned[i].old_rel) /\ NoTraversal(Returned[i].old_rel)
     /\ SlashNormal(Returned[i].new_rel) /\ NoTraversal(Returned[i].new_rel)


(***************************************************************************)
(* Properties of cleanup_empty_dirs                                        *)
(***************************************************************************)

\* the step in which cleanup_empty_dirs runs
CleanupRuns == epc = "cleanup" /\ epc' = "report"

\* the run is past cleanup_empty_dirs
CleanupDone == epc \in {"report", "done"} /\ ~dry_run

BundleName(name) == IsKnownBundleFolder(name) \/ IsMacosBundle(name)

\* d is, or lies beneath, a directory named as a bundle
InBundle(d) == \E a \in WithAncestors(d) \ {""} : BundleName(PathName(a))

\* d has no entry in the tree
EmptyDir(ff, dd, d) ==
  /\ \A q \in DOMAIN ff : ParentKey(q) # d
  /\ \A c \in dd \ {""} : ParentKey(c) # d

BundleDirsStay == CleanupRuns => \A d \in fs_dirs : InBundle(d) => d \in fs_dirs'

OpenEmptyDirsGo ==
  CleanupRuns =>
    \A d \in fs_dirs \ {""} :
      (~InBundle(d) /\ d \notin SeqToSet(created_folders) /\ EmptyDir(fs_files, fs_dirs, d))
        => d \notin fs_dirs'

\* C17: cleanup_empty_dirs never removes a directory that is, or lies beneath, a
\* directory named as a bundle, even if it is empty; unprotected empty directories
\* are still removed.
C17_BundlesSurviveCleanup == [][BundleDirsStay /\ OpenEmptyDirsGo]_vars

\* Cleanup has run: an empty directory inside a bundle is still there and an
\* unprotected directory of the initial tree is gone.
C17_Witness ==
  /\ CleanupDone
  /\ \E d \in fs_dirs : InBundle(d) /\ EmptyDir(fs_files, fs_dirs, d)
  /\ \E d \in before.dirs : ~InBundle(d) /\ d \notin fs_dirs

\* d holds a file somewhere beneath it
HoldsFile(ff, d) == \E q \in DOMAIN ff : d \in WithAncestors(q) \ {q}

NothingEmptyLeft ==
  CleanupDone =>
    /\ "" \in fs_dirs
    /\ \A d \in fs_dirs \ {""} :
          \/ d \in SeqToSet(created_folders)
          \/ InBundle(d)
          \/ ~EmptyDir(fs_files, fs_dirs, d)

NonEmptyDirsStay ==
  CleanupRuns =>
    /\ fs_files' = fs_files
    /\ \A d \in fs_dirs : HoldsFile(fs_files, d) => d \in fs_dirs'
    /\ cleaned_folders_count' = Cardinality(fs_dirs \ fs_dirs')

\* C18: cleanup is bottom-up and complete: after cleanup_empty_dirs every directory
\* strictly below root that is neither kept nor inside a bundle is non-empty
\* (directories emptied by the removal of their children are removed too),
\* directories holding files are kept, and root is never removed.
C18_CleanupComplete == []NothingEmptyLeft /\ [][NonEmptyDirsStay]_vars

\* Cleanup removed a directory together with the empty directory that was its only
\* entry, and kept a directory that holds a file.
C18_Witness ==
  /\ CleanupDone
  /\ {"e", "e/i"} \subseteq before.dirs
  /\ "e" \notin fs_dirs /\ "e/i" \notin fs_dirs
  /\ \E d \in fs_dirs \ {""} : HoldsFile(fs_files, d)
  /\ cleaned_folders_count >= 2


\* the directories made since apply_plan was called
CreatedInRun == fs_dirs \ before.dirs

CreatedDirsStay == CleanupRuns => \A d \in CreatedInRun : d \in fs_dirs'

\* C19: post-execution cleanup never removes a directory that was created during
\* the same run, from folders_to_create or as the destination parent of a move,
\* even if it is empty when cleanup runs.
C19_CreatedDirsSurvive == [][CreatedDirsStay]_vars

\* the part for folders_to_create: a created folder is still there after cleanup
CreatedFoldersStay ==
  CleanupDone => \A i \in 1..Len(created_folders) : FsKey(created_folders[i]) \in fs_dirs


(***************************************************************************)
(* Moves across devices                                                    *)
(***************************************************************************)

DeviceErrors == {"Destination parent on different device", "Source on different device"}

\* the source, or the parent of the destination, of the move is not on root's device
CrossesDevice(task) ==
  \/ DeviceOf(FsKey(task.old_rel)) # RootDevice
  \/ DeviceOf(ParentKey(FsKey(task.new_rel))) # RootDevice

DeviceResults ==
  \A t \in DOMAIN tasks :
    /\ (~allow_cross_device /\ CrossesDevice(tasks[t]) /\ tasks[t].pc = "finished")
         => tasks[t].status = "skipped"
    /\ (~allow_cross_device /\ CrossesDevice(tasks[t]) /\ epc = "done")
         => /\ tasks[t].pc = "finished"
            /\ failed_moves_count >= Cardinality({u \in DOMAIN tasks : CrossesDevice(tasks[u])})
    /\ allow_cross_device => tasks[t].error \notin DeviceErrors

\* a step of a move that crosses devices changes nothing in the tree
CrossingMoveIsNotMade ==
  \A t \in DOMAIN tasks :
    (/\ ~allow_cross_device
     /\ t \in DOMAIN tasks'
     /\ CrossesDevice(tasks[t])
     /\ tasks[t].pc \in {"check_dst", "check_src", "prepare", "move"}
     /\ tasks'[t] # tasks[t])
      => fs_files' = fs_files /\ fs_dirs' = fs_dirs

\* C20: with allow_cross_device false no move is executed whose source, or whose
\* destination parent, is on a device other than root's: the move is reported
\* failed and the file stays in place. With allow_cross_device true no device
\* check is made.
C20_NoCrossDeviceMove == []DeviceResults /\ [][CrossingMoveIsNotMade]_vars

\* A run without allow_cross_device finished with a move skipped for its source's
\* device, a move skipped for its destination parent's device, both files where
\* they were.
C20_Witness ==
  /\ epc = "done" /\ ~dry_run /\ ~allow_cross_device
  /\ \E t, u \in DOMAIN tasks :
        /\ tasks[t].error = "Source on different device"
        /\ tasks[u].error = "Destination parent on different device"
        /\ IsFileAt(fs_files, FsKey(tasks[t].old_rel))
        /\ IsFileAt(fs_files, FsKey(tasks[u].old_rel))
  /\ failed_moves_count = 2


(***************************************************************************)
(* Planning again over the reorganized tree                                *)
(***************************************************************************)

\* C21: idempotence of planning: generating again, with the same rules, over the
\* records relocated by the first plan yields an empty plan.
C21_ReplanIsEmpty == (run = 2 /\ gpc = "done") => moves = <<>>


(***************************************************************************)
(* Properties of rule coverage                                             *)
(***************************************************************************)

\* the coverage step of run_rules_mode is over
CoverageSettled == gpc \in {"iter", "done"} /\ ~coverage.isNone

\* C22: after the catch-all rules generated from the unmatched subset are appended
\* to the rule list, the coverage check over the same records returns an empty
\* unmatched subset and every record with a path is matched by at least one rule.
C22_CatchAllCovers ==
  CoverageSettled =>
    /\ coverage.v.unmatched = <<>>
    /\ \A i \in 1..Len(files) :
          files[i].rel_path # "" => \E k \in 1..Len(rules) : Matches(rules[k].match, files[i])

\* Catch-all rules were appended, and a record without extension, which no
\* extension rule matches, is covered.
C22_Witness ==
  /\ CoverageSettled
  /\ rules[Len(rules)] = FinalCatchAll
  /\ Len(rules) >= 3
  /\ \E i \in 1..Len(files) :
        /\ files[i].rel_path # "" /\ files[i].ext = ""
        /\ \A k \in 1..(Len(rules) - 1) : ~Matches(rules[k].match, files[i])
  /\ coverage.v.unmatched = <<>>


(***************************************************************************)
(* The undo journal of a completed run                                     *)
(***************************************************************************)

\* the entries after the header
JournalEntries == SubSeq(undo_file.v, 2, Len(undo_file.v))

\* how many journal entries are the inverse of a move from o to n
EntriesFor(o, n) ==
  Cardinality({k \in 1..Len(JournalEntries) :
                 JournalEntries[k].old_rel = n /\ JournalEntries[k].new_rel = o})

\* how many moves from o to n the run reported as moved
MovedTasks(o, n) ==
  Cardinality({t \in DOMAIN tasks :
                 tasks[t].status = "moved" /\ tasks[t].old_rel = o /\ tasks[t].new_rel = n})

\* C23: when a non-dry run completes normally the undo journal holds, after its
\* header, exactly one entry per executed move, the inverse of that move, no entry
\* for a failed or skipped move, and as many entries as executed_moves_count.
C23_JournalMatchesExecuted ==
  (epc = "done" /\ ~dry_run /\ call = 1) =>
    /\ ~undo_file.isNone
    /\ Head(undo_file.v) = UndoHeader
    /\ Len(JournalEntries) = executed_moves_count
    /\ \A t \in DOMAIN tasks :
          EntriesFor(tasks[t].old_rel, tasks[t].new_rel)
            = MovedTasks(tasks[t].old_rel, tasks[t].new_rel)
    /\ \A k \in 1..Len(JournalEntries) :
          \E t \in DOMAIN tasks :
             /\ tasks[t].status = "moved"
             /\ JournalEntries[k].old_rel = tasks[t].new_rel
             /\ JournalEntries[k].new_rel = tasks[t].old_rel

\* A run completed with a move made and a move skipped: the journal has the header
\* and one entry.
C23_Witness ==
  /\ epc = "done" /\ ~dry_run /\ call = 1
  /\ \E t, u \in DOMAIN tasks : tasks[t].status = "moved" /\ tasks[u].status = "skipped"
  /\ Len(undo_file.v) = 2
  /\ executed_moves_count = 1 /\ failed_moves_count = 1


(***************************************************************************)
(* Properties of render_target                                             *)
(***************************************************************************)

\* the last segment of a path
LastSegment(path) == NameOfParts(Split(path))

\* C24: for every rule and every record with a non-empty path, the last segment of
\* the path returned by render_target is the record's original filename.
C24_RenderEndsWithFilename ==
  \A i \in 1..(gi - 1) : \A k \in 1..Len(rules) :
     files[i].rel_path # "" =>
       LastSegment(RenderTarget(rules[k], files[i])) = LastSegment(files[i].rel_path)


(***************************************************************************)
(* Interleavings of the worker pool                                        *)
(***************************************************************************)

\* _move_file run to its end on the tree of st with no other worker active
MovedAlone(st, m, allow) ==
  LET src == FsKey(m.old_rel)
      dst == FsKey(m.new_rel)
      parent == ParentKey(dst)
      failed == [st EXCEPT !.failed = @ + 1]
  IN IF ExistsAt(st.files, st.dirs, dst) THEN failed
     ELSE IF ~ExistsAt(st.files, st.dirs, src) THEN failed
     ELSE LET chk == PrepareCheck(st.files, st.dirs, src, parent, allow)
              dd == PrepareDirs(chk, st.files, st.dirs, parent)
              real == RealDst(dd, src, dst)
              kind == MoveKind(st.files, dd, src, dst, real)
          IN IF chk # "ok" THEN failed
             ELSE [files |-> FilesAfterMove(kind, st.files, src, real),
                   dirs |-> DirsAfterMove(kind, dd, src, real),
                   executed |-> st.executed + (IF AfterMove(NewTask(m), kind).status = "moved"
                                               THEN 1 ELSE 0),
                   failed |-> st.failed + (IF AfterMove(NewTask(m), kind).status = "moved"
                                           THEN 0 ELSE 1)]

\* the interleaving in which each move ends before the next one begins
RECURSIVE InPlanOrder(_, _, _)
InPlanOrder(ms, st, allow) ==
  IF Len(ms) = 0 THEN st ELSE InPlanOrder(Tail(ms), MovedAlone(st, Head(ms), allow), allow)

\* the moves of the plan as apply_plan processes them
PlannedMoves == ValidMovesFilter(PlanMoves(plan_arg))

\* the outcome of the moves of the call when they run one at a time in plan order
OneAtATime ==
  LET made == CreateFolders(SortedSet(SeqToSet(PlanFolders(plan_arg))), before.files,
                            before.dirs, <<>>, FALSE).dirs
  IN InPlanOrder(PlannedMoves,
                 [files |-> before.files,
                  dirs |-> BatchDirs(PlannedMoves, before.files, made),
                  executed |-> 0, failed |-> 0],
                 allow_cross_device)

DistinctDestinations ==
  \A i, j \in 1..Len(PlannedMoves) :
     i # j => FsKey(PlannedMoves[i].new_rel) # FsKey(PlannedMoves[j].new_rel)

\* C25: when the destinations of the plan are pairwise distinct, a finished non-dry run
\* leaves the files and the executed/failed counts that the run leaves when its moves are
\* made one at a time in plan order, whatever the interleaving of the workers was.
C25_InterleavingIndependent ==
  (epc = "done" /\ call = 1 /\ ~dry_run /\ DistinctDestinations) =>
     /\ fs_files = OneAtATime.files
     /\ report.v.executed_moves_count = OneAtATime.executed
     /\ report.v.failed_moves_count = OneAtATime.failed


\* the contents held by the files of a tree
Contents(ff) == {ff[p] : p \in DOMAIN ff}

NoFileLost == Contents(fs_files) = Contents(before.files)

OneMovePerDestination ==
  \A t, u \in DOMAIN tasks :
     (t # u /\ FsKey(tasks[t].new_rel) = FsKey(tasks[u].new_rel)) =>
        ~(tasks[t].status = "moved" /\ tasks[u].status = "moved")

\* C26: under every interleaving of the workers no file of the tree is overwritten or
\* lost, and of two moves with the same destination at most one is reported as moved.
C26_NoOverwrite == call = 1 => (NoFileLost /\ OneMovePerDestination)


(***************************************************************************)
(* Properties of the commands                                              *)
(***************************************************************************)

\* apply_plan has been called by the command
Applying == epc \notin {"cmd_apply", "cmd_run", "validating", "rejected", "idle"}

Accepted(m) ==
  /\ ~vresult.isNone
  /\ \E k \in 1..Len(vresult.v) :
        vresult.v[k].old_rel = m.old_rel /\ vresult.v[k].new_rel = m.new_rel

\* C27: on every path of apply and run the moves handed to apply_plan are moves that
\* validate_plan returned, and when validate_plan raised apply_plan is not called.
C27_OnlyValidatedMovesApplied ==
  /\ Applying => \A i \in 1..Len(PlannedMoves) : Accepted(PlannedMoves[i])
  /\ vpc = "raised" => ~Applying


(***************************************************************************)
(* Properties of an interrupted run                                        *)
(***************************************************************************)

\* C28: a non-dry run that was interrupted after moves were made has a report whose counts are those of the
\* moves collected so far, and no move that was not submitted before the interrupt has
\* been started.
C28_InterruptedRunReports ==
  (epc = "aborted" /\ executed_moves_count > 0) =>
     /\ \A t \in DOMAIN tasks : tasks[t].pc \in {"unsubmitted", "finished"}
     /\ ~report.isNone
     /\ report.v.executed_moves_count = executed_moves_count
     /\ report.v.failed_moves_count = failed_moves_count


(***************************************************************************)
(* Properties of the destination parents                                   *)
(***************************************************************************)

\* a worker performs shutil.move for task t in this step
Relocates(t) == tasks[t].pc = "move" /\ tasks'[t].pc = "finished"

ParentIsThere ==
  \A t \in DOMAIN tasks :
     (t \in DOMAIN tasks' /\ Relocates(t)) =>
        IsDirAt(fs_dirs, ParentKey(FsKey(tasks[t].new_rel)))

\* C29: whenever a worker performs the relocation step of a move, the parent directory
\* of the move's destination exists.
C29_ParentExistsAtRelocation == [][ParentIsThere]_vars


(***************************************************************************)
(* Properties of the writes to the undo journal                            *)
(***************************************************************************)

\* the results the calling thread takes from as_completed in this step
CollectedNow == {t \in DOMAIN tasks : ~tasks[t].collected /\ tasks'[t].collected}

\* a step that writes to the journal is the opening of the file, which writes the header,
\* or a step of the calling thread that collects one moved result and appends its
\* complete entry; no step of a worker writes to it
SerializedWrite ==
  undo_file' # undo_file =>
     \/ epc = "start" /\ undo_file.isNone /\ undo_file' = Some(<<UndoHeader>>)
     \/ /\ epc = "collect"
        /\ ~undo_file.isNone /\ ~undo_file'.isNone
        /\ \A t \in DOMAIN tasks : tasks'[t].pc = tasks[t].pc
        /\ \E t \in DOMAIN tasks :
              /\ CollectedNow = {t}
              /\ tasks[t].status = "moved"
              /\ undo_file'.v = Append(undo_file.v, UndoMove(tasks[t]))

\* C30: appends to the undo journal are serialized: every write is made by the calling
\* thread, one complete entry at a time, whatever the interleaving of the workers.
C30_JournalAppendsSerialized == [][SerializedWrite]_vars

\* Two workers finished in the order opposite to the plan's and both entries are in the
\* journal, in the order of collection
C30_Witness ==
  /\ ~dry_run /\ call = 1
  /\ Len(tasks) = 2
  /\ ~undo_file.isNone
  /\ Len(undo_file.v) = 3
  /\ undo_file.v[2] = UndoMove(tasks[2])
  /\ undo_file.v[3] = UndoMove(tasks[1])


(***************************************************************************)
(* Properties of the generated destinations                                *)
(***************************************************************************)

\* the paths the stream reports as occupied
RecordPaths == {NormSlashes(files[i].rel_path) : i \in 1..Len(files)} \ {""}

\* C31: no move yielded by generate_moves_from_rules has a destination equal to the
\* rel_path of another record of the stream.
C31_DestinationNotOccupied ==
  \A k \in 1..Len(moves) :
     moves[k].new_rel \notin (RecordPaths \ {moves[k].old_rel})


(***************************************************************************)
(* Properties of the ceiling of collision resolution                       *)
(***************************************************************************)

\* what the record in turn renders with its first matching rule that is not a no-op
\* ("" when there is none), and the counter the loop starts from
BaseInTurn ==
  IF gpc = "iter" /\ gi <= Len(files)
  THEN ProcessRecord(files[gi], SortedRules(rules), {}, <<>>).base
  ELSE ""

\* the base of the record in turn is assigned and so is every suffix from the starting
\* counter up to the ceiling
UsedUp ==
  /\ BaseInTurn # ""
  /\ BaseInTurn \in seen_destinations
  /\ \A c \in CounterGet(next_counters, BaseInTurn)..CollisionLimit :
        Candidate(BaseInTurn, c) \in seen_destinations

\* the step of a record whose suffixes are used up yields nothing, leaves the assigned
\* destinations and the counter cache alone and passes on to the next record; every
\* step of the loop consumes one record
CeilingStep ==
  /\ UsedUp => /\ moves' = moves
               /\ seen_destinations' = seen_destinations
               /\ next_counters' = next_counters
               /\ gi' = gi + 1
               /\ gpc' = "iter"
  /\ gi' \in {gi, gi + 1}
  /\ gi' = gi => (gi > Len(files) /\ gpc' = "done")

\* C32: when every suffix from the starting counter up to the ceiling is assigned for a
\* record's base, the record yields no move, the assigned destinations and the counter
\* cache are unchanged, and generation goes on with the next record; each step consumes
\* one record, so a finite stream is finished after as many steps as it has records.
C32_CeilingSkipsRecord == [][CeilingStep]_vars

\* A record was skipped at the ceiling and a later record was given a destination
C32_Witness ==
  /\ gpc = "done"
  /\ \E i, j \in 1..Len(gen_log) :
        /\ i < j
        /\ ~gen_log[i].yielded /\ gen_log[i].base = CeilingBase
        /\ gen_log[j].yielded
  /\ Candidate(CeilingBase, CollisionLimit) \in seen_destinations


(***************************************************************************)
(* Properties of the merged rule list                                      *)
(***************************************************************************)

\* generate_moves_from_rules(fs, rs) as a list, continued from seen and ctrs
RECURSIVE MovesFrom(_, _, _, _)
MovesFrom(fs, rs, seen, ctrs) ==
  IF Len(fs) = 0 THEN <<>>
  ELSE (IF ProcessRecord(Head(fs), SortedRules(rs), seen, ctrs).yielded
        THEN <<ProcessRecord(Head(fs), SortedRules(rs), seen, ctrs).move>> ELSE <<>>)
       \o MovesFrom(Tail(fs), rs, ProcessRecord(Head(fs), SortedRules(rs), seen, ctrs).seen,
                    ProcessRecord(Head(fs), SortedRules(rs), seen, ctrs).ctrs)

\* the rules the oracle wrote: those generate_catch_all_rules did not add
OracleRules == SelectSeq(rules, LAMBDA r : ~StartsWith(r.name, "Auto-Generated"))

MovesOf(ms, old_rel) == SelectSeq(ms, LAMBDA m : m.old_rel = old_rel)

\* C33: for every record matched by at least one oracle rule, the moves generated with
\* the merged rule list are the moves the oracle rules alone produce.
C33_CatchAllNeverPrecedes ==
  (gpc = "done" /\ ~coverage.isNone) =>
     \A i \in 1..Len(files) :
        (files[i].rel_path # "" /\ RuleMatches(OracleRules, files[i])) =>
           MovesOf(moves, NormSlashes(files[i].rel_path))
             = MovesOf(MovesFrom(files, OracleRules, {}, <<>>), NormSlashes(files[i].rel_path))


(***************************************************************************)
(* Properties of validate_rule_coverage                                    *)
(***************************************************************************)

\* C34: every record counted in total_files is counted as matched or returned in
\* unmatched, never both and never neither, so that coverage_pct is 100 exactly when
\* unmatched is empty.
C34_CoveragePartitions ==
  (~coverage.isNone /\ coverage.v.total_files > 0) =>
     /\ Cardinality(coverage.v.matched) + Len(coverage.v.unmatched) = coverage.v.total_files
     /\ ~Below100(coverage.v) <=> Len(coverage.v.unmatched) = 0


(***************************************************************************)
(* Properties of the list validate_plan returns                            *)
(***************************************************************************)

\* the moves of the input plan with the paths normalized, in plan order
NormalizedPlan ==
  [i \in 1..Len(vplan) |->
     [old_rel |-> NormRel(vplan[i].old_rel), new_rel |-> NormRel(vplan[i].new_rel)]]

\* xs can be obtained from ys by leaving entries out
RECURSIVE IsSubsequence(_, _)
IsSubsequence(xs, ys) ==
  IF Len(xs) = 0 THEN TRUE
  ELSE IF Len(ys) = 0 THEN FALSE
  ELSE IF Head(xs) = Head(ys) THEN IsSubsequence(Tail(xs), Tail(ys))
  ELSE IsSubsequence(xs, Tail(ys))

\* C35: whenever validate_plan returns normally, the returned moves have pairwise
\* distinct destinations and pairwise distinct (old_rel, new_rel) pairs, none is a
\* no-op, and they are in the relative order of the input plan.
C35_ReturnedListWellFormed ==
  vpc = "returned" =>
     /\ \A i, j \in 1..Len(vresult.v) :
           i # j => /\ vresult.v[i].new_rel # vresult.v[j].new_rel
                    /\ <<vresult.v[i].old_rel, vresult.v[i].new_rel>>
                         # <<vresult.v[j].old_rel, vresult.v[j].new_rel>>
     /\ \A i \in 1..Len(vresult.v) : vresult.v[i].old_rel # vresult.v[i].new_rel
     /\ IsSubsequence(vresult.v, NormalizedPlan)

\* Two moves were returned; or one was, from a plan that repeats it or begins with a no-op
C35_Witness ==
  /\ vpc = "returned"
  /\ Len(vplan) = 2
  /\ \/ Len(vresult.v) = 2
     \/ /\ Len(vresult.v) = 1
        /\ \/ NormalizedPlan[1] = NormalizedPlan[2]
           \/ NormalizedPlan[1].old_rel = NormalizedPlan[1].new_rel


(***************************************************************************)
(* Properties of the date bounds                                           *)
(***************************************************************************)

\* a date bound is given and datetime.fromisoformat cannot parse it
Unparsable(o) == ~o.isNone /\ ~ParseIso(o.v).ok

\* C36: if date_start or date_end of a criteria cannot be parsed as a date, matches
\* returns false for every record, whatever timestamps the record has or lacks.
C36_UnparsableBoundNeverMatches ==
  \A i \in 1..(gi - 1) : \A k \in 1..Len(rules) :
     (Unparsable(rules[k].match.date_start) \/ Unparsable(rules[k].match.date_end)) =>
        ~Matches(rules[k].match, files[i])


\* no segment of the path repeats the one before it or the tail of the one before it
NoRepeatedSegment(path) ==
  \A j \in 2..Len(Split(path)) :
     /\ Split(path)[j] # Split(path)[j - 1]
     /\ ~EndsWith(Split(path)[j - 1], " - " \o Split(path)[j])
     /\ ~EndsWith(Split(path)[j - 1], " " \o Split(path)[j])

\* C37: the path returned by render_target never contains two adjacent identical
\* segments, nor a segment right after one that ends with ' - <segment>' or ' <segment>'.
C37_NoAdjacentDuplicates ==
  \A i \in 1..(gi - 1) : \A k \in 1..Len(rules) :
     NoRepeatedSegment(RenderTarget(rules[k], files[i]))

(***************************************************************************)
(* C38: in a non-dry run that completes, executed_moves_count plus         *)
(* failed_moves_count is the number of plan entries that carry both        *)
(* old_rel and new_rel: each such entry is counted once, and an entry      *)
(* missing either field is counted in neither                              *)
(***************************************************************************)

\* The entries of the plan that carry both fields
MoveEntries == {i \in 1..Len(PlanMoves(plan_arg)) : IsMoveItem(PlanMoves(plan_arg)[i])}

\* The run returned its report and was not a dry run
Completed == epc = "done" /\ ~dry_run /\ report # None

C38_ReportAccounting ==
  Completed =>
    /\ executed_moves_count + failed_moves_count = Cardinality(MoveEntries)
    /\ report.v.executed_moves_count = executed_moves_count
    /\ report.v.failed_moves_count = failed_moves_count
    /\ Len(tasks) = Cardinality(MoveEntries)
    /\ \A t \in DOMAIN tasks : tasks[t].collected

\* a completed run of a plan with an entry lacking a field between a move made and a move failed
C38_Witness ==
  /\ Completed
  /\ executed_moves_count = 1
  /\ failed_moves_count = 1
  /\ Len(PlanMoves(plan_arg)) = 3
  /\ ~IsMoveItem(PlanMoves(plan_arg)[2])

(***************************************************************************)
(* C39: a non-dry run removes only directories that its moves left empty:  *)
(* a directory under root that was empty before the run and that no move   *)
(* of the plan names as source or destination is still there afterwards,   *)
(* and every directory removed held the source of a move that was made     *)
(***************************************************************************)

\* a move of the plan has its source or its destination in d or below
TouchedByPlan(d) ==
  \E i \in 1..Len(PlanMoves(plan_arg)) :
     /\ IsMoveItem(PlanMoves(plan_arg)[i])
     /\ \/ Under(FsKey(NormItem(PlanMoves(plan_arg)[i]).old_rel), d)
        \/ Under(FsKey(NormItem(PlanMoves(plan_arg)[i]).new_rel), d)

\* a move that was made took its source out of d or of a directory below
EmptiedByRun(d) ==
  \E t \in DOMAIN tasks : tasks[t].status = "moved" /\ Under(FsKey(tasks[t].old_rel), d)

EmptyBefore(d) == d # "" /\ ~HasEntries(before.files, before.dirs, d)

C39_RemovesOnlyRunEmptied ==
  (epc = "done" /\ ~dry_run) =>
    /\ \A d \in before.dirs : (EmptyBefore(d) /\ ~TouchedByPlan(d)) => d \in fs_dirs
    /\ \A d \in before.dirs \ fs_dirs : EmptiedByRun(d)

====
